---- MODULE Spec2Model ----
(***************************************************************************)
(* Model of the scheduler-assistant backend (FastAPI + SQLAlchemy):        *)
(*   routers/events.py          event CRUD and check_conflicts             *)
(*   routers/import_schedule.py bulk import                                *)
(*   routers/sessions.py        per-day session attendance                 *)
(*                                                                         *)
(* Representation.                                                         *)
(*  - A datetime is the number of seconds since 2024-01-01T00:00:00, as a  *)
(*    naive wall-clock value: the persistence layer hands the routers      *)
(*    naive values, on which datetime.replace(tzinfo=None) changes         *)
(*    nothing.                                                             *)
(*  - A date is the number of days since 2024-01-01; isoformat turns it    *)
(*    into the "YYYY-MM-DD" string the attendance table stores.            *)
(*  - The events table is the sequence of its rows in insertion order,     *)
(*    the order in which check_conflicts' unordered query returns them.    *)
(*  - The session_attendance table is a bag of rows: the table has no      *)
(*    unique constraint, its rows differ for the code only in event_id,    *)
(*    session_date and status, and a query without ORDER BY returns them   *)
(*    in any order (.first() is any matching row, .all() any listing).     *)
(*    The columns id, notes and created_at, which no result modelled here  *)
(*    depends on, are left out.                                            *)
(*  - Python's None is the string "None" where the field is a string, and  *)
(*    the empty sequence where a function returns Optional[row].           *)
(*  - Event columns that no operation modelled here reads (description,    *)
(*    category, is_recurring, subtasks, resolution, reschedule_count,      *)
(*    original_start_date, created_at, updated_at) are left out.           *)
(***************************************************************************)
EXTENDS Integers, Sequences, FiniteSets, Bags, TLC

VARIABLES
    events,      \* table "events": sequence of Event rows
    attendance,  \* table "session_attendance": bag of SessionAttendance rows
    now,         \* the wall clock, seconds since 2024-01-01T00:00:00
    next_id,     \* the number of the next row id (uuid4: never used twice)
    response,    \* what the last operation returned
    pomodoro_sessions,  \* table "pomodoro_sessions": sequence of rows
    in_flight    \* the marking requests that are being handled, each with
                 \* its position in the handler and what it has read

vars == <<events, attendance, now, next_id, response, pomodoro_sessions,
          in_flight>>

\* what the operations on events and session_attendance leave alone
untouched == <<pomodoro_sessions, in_flight>>

\* ------------------------------------------------------------------ bounds

\* most rows of the events table in the conflict-detector specification
MaxStored == 2
\* most rows of the events table in the HTTP specification
MaxEvents == 2
\* most rows of the session_attendance table
MaxRecords == 4
\* most items of one import payload
MaxPayload == 2
\* last day, counted from 2024-01-01, of the events whose sessions are counted
MaxDay == 4

\* ------------------------------------------------------------ time helpers

None == "None"

SecondsPerMinute == 60 * 1
SecondsPerHour == 60 * 60
SecondsPerDay == 24 * SecondsPerHour

Abs(x) == IF x < 0 THEN 0 - x ELSE x

Max(a, b) == IF a >= b THEN a ELSE b

\* datetime.date(): the calendar day of a datetime
DateOf(t) == t \div SecondsPerDay

\* datetime.hour and datetime.minute
HourOf(t) == (t % SecondsPerDay) \div SecondsPerHour
MinuteOf(t) == (t % SecondsPerHour) \div SecondsPerMinute

\* datetime(2024, 1, 1 + day, hour, minute)
At(day, hour, minute) ==
    day * SecondsPerDay + hour * SecondsPerHour + minute * SecondsPerMinute

\* ------------------------------------------------------------------ events

TimingModes == {"specific", "anytime", "deadline"}

\* str(uuid.uuid4()) of the i-th event created
IdOf(i) == "e" \o ToString(i)

\* db.query(Event).filter(Event.id == event_id).first()
FindEvent(db, event_id) ==
    SelectSeq(db, LAMBDA e: e.id = event_id)

\* SQLAlchemy model Event, with the column defaults of a row that
\* create_event or import_schedule inserts
NewEvent(id, title, start_date, end_date, priority, timing_mode, dst, det) ==
    [id |-> id, title |-> title,
     start_date |-> start_date, end_date |-> end_date,
     priority |-> priority, timing_mode |-> timing_mode,
     is_completed |-> FALSE,
     daily_start_time |-> dst, daily_end_time |-> det]

\* the conflict threshold of check_conflicts, in seconds
ConflictThreshold == 3600

\* a WHERE clause whose overlap test admits touching intervals
ConflictQueryMatchesTouching(event, start_date, end_date, exclude_id) ==
    /\ event.start_date <= end_date
    /\ event.end_date >= start_date
    /\ event.timing_mode # "anytime"
    /\ event.is_completed = FALSE
    /\ (exclude_id # None => event.id # exclude_id)

\* a WHERE clause that does not filter the completed events out
ConflictQueryMatchesCompleted(event, start_date, end_date, exclude_id) ==
    /\ event.start_date < end_date
    /\ event.end_date > start_date
    /\ event.timing_mode # "anytime"
    /\ (exclude_id # None => event.id # exclude_id)

\* the WHERE clause of check_conflicts' query
ConflictQueryMatches(event, start_date, end_date, exclude_id) ==
    /\ event.start_date < end_date
    /\ event.end_date > start_date
    /\ event.timing_mode # "anytime"
    /\ event.is_completed = FALSE
    /\ (exclude_id # None => event.id # exclude_id)

\* a test that also reports a difference of exactly the threshold
TooCloseInclusive(event, start_date, end_date) ==
    LET start_diff == Abs(event.start_date - start_date)
        end_diff == Abs(event.end_date - end_date)
    IN  start_diff <= ConflictThreshold /\ end_diff <= ConflictThreshold

\* the loop body's test: both ends closer than the threshold
TooClose(event, start_date, end_date) ==
    LET start_diff == Abs(event.start_date - start_date)
        end_diff == Abs(event.end_date - end_date)
    IN  start_diff < ConflictThreshold /\ end_diff < ConflictThreshold

RECURSIVE FirstTooClose(_, _, _)
\* for event in candidates: if ...: return event; return None
FirstTooClose(candidates, start_date, end_date) ==
    IF candidates = <<>> THEN <<>>
    ELSE IF TooClose(Head(candidates), start_date, end_date)
         THEN <<Head(candidates)>>
         ELSE FirstTooClose(Tail(candidates), start_date, end_date)

\* check_conflicts(db, start_date, end_date, exclude_id) -> Optional[Event]
check_conflicts(db, start_date, end_date, exclude_id) ==
    LET candidates ==
            SelectSeq(db, LAMBDA e:
                ConflictQueryMatches(e, start_date, end_date, exclude_id))
    IN  FirstTooClose(candidates, start_date, end_date)

\* ---------------------------------------------------------------- calendar

\* the days of the months of 2024
DaysInMonth == <<31, 29, 31, 30, 31, 30, 31, 31, 30, 31, 30, 31>>

RECURSIVE MonthAndDay(_, _)
\* the month and the day of the month of the day-th day (from 0) of the
\* months month..12
MonthAndDay(day, month) ==
    IF day < DaysInMonth[month] THEN <<month, day + 1>>
    ELSE MonthAndDay(day - DaysInMonth[month], month + 1)

\* "%02d" % n
Pad2(n) == IF n < 10 THEN "0" \o ToString(n) ELSE ToString(n)

\* date.isoformat() of a day of 2024: "YYYY-MM-DD"
IsoFormat(date) ==
    LET md == MonthAndDay(date, 1)
    IN  "2024-" \o Pad2(md[1]) \o "-" \o Pad2(md[2])

\* the place of a character of a date string in the order of str
CharRank(c) ==
    CASE c = "-" -> 0 [] c = "0" -> 1 [] c = "1" -> 2 [] c = "2" -> 3
      [] c = "3" -> 4 [] c = "4" -> 5 [] c = "5" -> 6 [] c = "6" -> 7
      [] c = "7" -> 8 [] c = "8" -> 9 [] c = "9" -> 10

RECURSIVE StrLessFrom(_, _, _)
\* a < b for strings that agree before position i
StrLessFrom(a, b, i) ==
    IF i > Len(b) THEN FALSE
    ELSE IF i > Len(a) THEN TRUE
    ELSE IF SubSeq(a, i, i) = SubSeq(b, i, i) THEN StrLessFrom(a, b, i + 1)
    ELSE CharRank(SubSeq(a, i, i)) < CharRank(SubSeq(b, i, i))

\* str.__lt__: the lexicographic order of strings
StrLess(a, b) == StrLessFrom(a, b, 1)

\* int(s) of a string of one or two digits
ParseInt(s) ==
    IF Len(s) = 1 THEN CharRank(s) - 1
    ELSE 10 * (CharRank(SubSeq(s, 1, 1)) - 1) + CharRank(SubSeq(s, 2, 2)) - 1

\* map(int, s.split(':')) of an "H:MM" or "HH:MM" string
ParseHourMinute(s) ==
    LET colon == CHOOSE i \in 1..Len(s) : SubSeq(s, i, i) = ":"
    IN  <<ParseInt(SubSeq(s, 1, colon - 1)),
          ParseInt(SubSeq(s, colon + 1, Len(s)))>>

\* --------------------------------------------------------------- attendance

SessionStatuses == {"pending", "attended", "missed", "skipped"}

\* SQLAlchemy model SessionAttendance
NewSession(event_id, session_date, status) ==
    [event_id |-> event_id, session_date |-> session_date, status |-> status]

\* db.query(SessionAttendance).filter(event_id == ...)
SessionsOf(table, event_id) ==
    [r \in {x \in BagToSet(table) : x.event_id = event_id} |-> table[r]]

\* a lookup that compares session_date with the wrong value and finds nothing
SessionsOnNoDate(table, event_id, session_date) ==
    [r \in {x \in BagToSet(table) :
                x.event_id = event_id /\ x.session_date = event_id}
        |-> table[r]]

\* db.query(SessionAttendance).filter(and_(event_id == ..., session_date == ...))
SessionsOn(table, event_id, session_date) ==
    [r \in {x \in BagToSet(table) :
                x.event_id = event_id /\ x.session_date = session_date}
        |-> table[r]]

RECURSIVE Listings(_)
\* query.all(): the lists that hold the rows of a bag, in any order
Listings(rows) ==
    IF BagToSet(rows) = {} THEN {<<>>}
    ELSE UNION {{<<r>> \o l : l \in Listings(rows (-) SetToBag({r}))} :
                r \in BagToSet(rows)}

\* a session count taken from the length of the event instead of its dates
calculate_total_sessions_by_duration(event) ==
    IF event.daily_start_time = None \/ event.daily_end_time = None THEN 0
    ELSE ((event.end_date - event.start_date) \div SecondsPerDay) + 1

\* calculate_total_sessions(event)
calculate_total_sessions(event) ==
    IF event.daily_start_time = None \/ event.daily_end_time = None THEN 0
    ELSE LET start == DateOf(event.start_date)
             end == DateOf(event.end_date)
         IN  (end - start) + 1

RECURSIVE InsertAsc(_, _)
\* the same for a sort without reverse=True: ascending
InsertAsc(sorted, session) ==
    IF sorted = <<>> THEN <<session>>
    ELSE IF StrLess(session.session_date, Head(sorted).session_date)
         THEN <<session>> \o sorted
         ELSE <<Head(sorted)>> \o InsertAsc(Tail(sorted), session)

RECURSIVE InsertDesc(_, _)
\* a list sorted by session_date, descending, with one more session put
\* after the sessions that do not sort after it
InsertDesc(sorted, session) ==
    IF sorted = <<>> THEN <<session>>
    ELSE IF StrLess(Head(sorted).session_date, session.session_date)
         THEN <<session>> \o sorted
         ELSE <<Head(sorted)>> \o InsertDesc(Tail(sorted), session)

RECURSIVE SortedDesc(_)
\* sorted(sessions, key=lambda s: s.session_date, reverse=True): stable
SortedDesc(sessions) ==
    IF sessions = <<>> THEN <<>>
    ELSE InsertDesc(SortedDesc(SubSeq(sessions, 1, Len(sessions) - 1)),
                    sessions[Len(sessions)])

\* a count of all attended sessions, which does not stop at another status
AllAttended(sorted_sessions) ==
    Len(SelectSeq(sorted_sessions, LAMBDA x: x.status = "attended"))

RECURSIVE LeadingAttended(_)
\* the loop of calculate_streak: count up to the first session not attended
LeadingAttended(sorted_sessions) ==
    IF sorted_sessions = <<>> THEN 0
    ELSE IF Head(sorted_sessions).status = "attended"
         THEN 1 + LeadingAttended(Tail(sorted_sessions))
         ELSE 0

\* calculate_streak(sessions)
calculate_streak(sessions) ==
    IF sessions = <<>> THEN 0
    ELSE LeadingAttended(SortedDesc(sessions))

\* a count that takes the skipped sessions for sessions of every status
CountStatusOrSkipped(sessions, status) ==
    Len(SelectSeq(sessions,
                  LAMBDA x: x.status = status \/ x.status = "skipped"))

\* sum(1 for s in sessions if s.status == status)
CountStatus(sessions, status) ==
    Len(SelectSeq(sessions, LAMBDA x: x.status = status))

\* a rate cut off after the first decimal instead of rounded
TruncatedRate(n, d) == (n * 1000) \div d

\* round(n / d * 100, 1) in tenths of a percent: the nearest tenth, the even
\* one of two equally near
RoundedRate(n, d) ==
    LET q == (n * 1000) \div d
        r == (n * 1000) % d
    IN  IF 2 * r > d THEN q + 1
        ELSE IF 2 * r = d THEN q + (q % 2)
        ELSE q

\* statistics whose pending is the number of records of status pending
SessionStatsOfPendingRecords(event, sessions) ==
    LET total_sessions == calculate_total_sessions(event)
        attended == CountStatus(sessions, "attended")
        missed == CountStatus(sessions, "missed")
        skipped == CountStatus(sessions, "skipped")
        marked_sessions == attended + missed
    IN  [total_sessions |-> total_sessions,
         attended |-> attended,
         missed |-> missed,
         skipped |-> skipped,
         pending |-> CountStatus(sessions, "pending"),
         attendance_rate |-> IF marked_sessions > 0
                             THEN RoundedRate(attended, marked_sessions)
                             ELSE 0,
         current_streak |-> calculate_streak(sessions)]

\* the SessionStats that get_session_stats builds from the event and the
\* list of its sessions; attendance_rate is in tenths of a percent
SessionStats(event, sessions) ==
    LET total_sessions == calculate_total_sessions(event)
        attended == CountStatus(sessions, "attended")
        missed == CountStatus(sessions, "missed")
        skipped == CountStatus(sessions, "skipped")
        pending == total_sessions - attended - missed - skipped
        marked_sessions == attended + missed
        streak == calculate_streak(sessions)
    IN  [total_sessions |-> total_sessions,
         attended |-> attended,
         missed |-> missed,
         skipped |-> skipped,
         pending |-> Max(0, pending),
         attendance_rate |-> IF marked_sessions > 0
                             THEN RoundedRate(attended, marked_sessions)
                             ELSE 0,
         current_streak |-> streak]

\* GET /{event_id}/sessions/stats
get_session_stats(event_id) ==
    /\ \/ /\ FindEvent(events, event_id) = <<>>
          /\ response' = [op |-> "get_session_stats", event_id |-> event_id,
                          status_code |-> 404]
       \/ /\ FindEvent(events, event_id) # <<>>
          /\ \E sessions \in Listings(SessionsOf(attendance, event_id)) :
                response' = [op |-> "get_session_stats",
                             event_id |-> event_id, status_code |-> 200,
                             body |-> SessionStats(
                                 FindEvent(events, event_id)[1], sessions)]
    /\ UNCHANGED <<events, attendance, now, next_id, untouched>>

\* POST /{event_id}/sessions
create_session_attendance(event_id, session_date, status) ==
    /\ \/ /\ FindEvent(events, event_id) = <<>>
          /\ response' = [op |-> "create_session_attendance",
                          status_code |-> 404]
          /\ UNCHANGED attendance
       \/ /\ FindEvent(events, event_id) # <<>>
          /\ \E existing \in
                 BagToSet(SessionsOn(attendance, event_id, session_date)) :
                attendance' = (attendance (-) SetToBag({existing}))
                    (+) SetToBag({[existing EXCEPT !.status = status]})
          /\ response' = [op |-> "create_session_attendance",
                          status_code |-> 201,
                          body |-> NewSession(event_id, session_date, status)]
       \/ /\ FindEvent(events, event_id) # <<>>
          /\ BagToSet(SessionsOn(attendance, event_id, session_date)) = {}
          /\ BagCardinality(attendance) < MaxRecords
          /\ attendance' = attendance
                (+) SetToBag({NewSession(event_id, session_date, status)})
          /\ response' = [op |-> "create_session_attendance",
                          status_code |-> 201,
                          body |-> NewSession(event_id, session_date, status)]
    /\ UNCHANGED <<events, now, next_id, untouched>>

\* a PATCH that takes the record away when the status is pending
update_session_attendance_unmarking(event_id, session_date, status) ==
    /\ \/ /\ BagToSet(SessionsOn(attendance, event_id, session_date)) = {}
          /\ FindEvent(events, event_id) = <<>>
          /\ response' = [op |-> "update_session_attendance",
                          status_code |-> 404]
          /\ UNCHANGED attendance
       \/ /\ BagToSet(SessionsOn(attendance, event_id, session_date)) = {}
          /\ FindEvent(events, event_id) # <<>>
          /\ BagCardinality(attendance) < MaxRecords
          /\ attendance' = attendance
                (+) SetToBag({NewSession(event_id, session_date, status)})
          /\ response' = [op |-> "update_session_attendance",
                          status_code |-> 200,
                          body |-> NewSession(event_id, session_date, status)]
       \/ /\ \E session \in
                 BagToSet(SessionsOn(attendance, event_id, session_date)) :
                attendance' =
                    IF status = "pending"
                    THEN attendance (-) SetToBag({session})
                    ELSE (attendance (-) SetToBag({session}))
                         (+) SetToBag({[session EXCEPT !.status = status]})
          /\ response' = [op |-> "update_session_attendance",
                          status_code |-> 200,
                          body |-> NewSession(event_id, session_date, status)]
    /\ UNCHANGED <<events, now, next_id, untouched>>

\* PATCH /{event_id}/sessions/{session_date}
update_session_attendance(event_id, session_date, status) ==
    /\ \/ /\ BagToSet(SessionsOn(attendance, event_id, session_date)) = {}
          /\ FindEvent(events, event_id) = <<>>
          /\ response' = [op |-> "update_session_attendance",
                          status_code |-> 404]
          /\ UNCHANGED attendance
       \/ /\ BagToSet(SessionsOn(attendance, event_id, session_date)) = {}
          /\ FindEvent(events, event_id) # <<>>
          /\ BagCardinality(attendance) < MaxRecords
          /\ attendance' = attendance
                (+) SetToBag({NewSession(event_id, session_date, status)})
          /\ response' = [op |-> "update_session_attendance",
                          status_code |-> 200,
                          body |-> NewSession(event_id, session_date, status)]
       \/ /\ \E session \in
                 BagToSet(SessionsOn(attendance, event_id, session_date)) :
                attendance' = (attendance (-) SetToBag({session}))
                    (+) SetToBag({[session EXCEPT !.status = status]})
          /\ response' = [op |-> "update_session_attendance",
                          status_code |-> 200,
                          body |-> NewSession(event_id, session_date, status)]
    /\ UNCHANGED <<events, now, next_id, untouched>>

\* a test that takes today's session to end only after the minute of
\* daily_end_time
TodaySessionEndedLate(clock, daily_end_time) ==
    LET hm == ParseHourMinute(daily_end_time)
    IN  \/ HourOf(clock) > hm[1]
        \/ (HourOf(clock) = hm[1] /\ MinuteOf(clock) > hm[2])

\* today_session_ended of get_pending_sessions
TodaySessionEnded(clock, daily_end_time) ==
    LET end_hour == ParseHourMinute(daily_end_time)[1]
        end_min == ParseHourMinute(daily_end_time)[2]
    IN  \/ HourOf(clock) > end_hour
        \/ (HourOf(clock) = end_hour /\ MinuteOf(clock) >= end_min)

RECURSIVE PendingFromEndedOnly(_, _, _, _, _)
\* a loop that asks of every date, not only of today, whether today's
\* session has ended
PendingFromEndedOnly(current, end, today, ended, marked_dates) ==
    IF ~(current <= end /\ current <= today) THEN <<>>
    ELSE LET date_str == IsoFormat(current)
             here == IF date_str \notin marked_dates /\ ended
                     THEN <<date_str>>
                     ELSE <<>>
         IN  here \o PendingFromEndedOnly(current + 1, end, today, ended,
                                          marked_dates)

RECURSIVE PendingFrom(_, _, _, _, _)
\* the while loop of get_pending_sessions, from the date current on
PendingFrom(current, end, today, today_session_ended, marked_dates) ==
    IF ~(current <= end /\ current <= today) THEN <<>>
    ELSE LET date_str == IsoFormat(current)
             here == IF date_str \notin marked_dates
                        /\ (current = today => today_session_ended)
                     THEN <<date_str>>
                     ELSE <<>>
         IN  here \o PendingFrom(current + 1, end, today, today_session_ended,
                                 marked_dates)

\* the list get_pending_sessions returns for an event, its rows and the clock
PendingSessions(event, table, clock) ==
    IF event.daily_start_time = None \/ event.daily_end_time = None THEN <<>>
    ELSE LET marked_dates ==
                 {r.session_date : r \in BagToSet(SessionsOf(table, event.id))}
             start == DateOf(event.start_date)
             end == DateOf(event.end_date)
             today == DateOf(clock)
         IN  PendingFrom(start, end, today,
                         TodaySessionEnded(clock, event.daily_end_time),
                         marked_dates)

\* a handler that stores a pending record for every date it reports
get_pending_sessions_marking(event_id) ==
    /\ FindEvent(events, event_id) # <<>>
    /\ LET body == PendingSessions(FindEvent(events, event_id)[1],
                                   attendance, now)
       IN  /\ response' = [op |-> "get_pending_sessions",
                           event_id |-> event_id, status_code |-> 200,
                           body |-> body]
           /\ attendance' = attendance (+)
                 SetToBag({NewSession(event_id, body[i], "pending") :
                              i \in DOMAIN body})
    /\ UNCHANGED <<events, now, next_id, untouched>>

\* GET /{event_id}/sessions/pending
get_pending_sessions(event_id) ==
    /\ \/ /\ FindEvent(events, event_id) = <<>>
          /\ response' = [op |-> "get_pending_sessions", event_id |-> event_id,
                          status_code |-> 404]
       \/ /\ FindEvent(events, event_id) # <<>>
          /\ response' = [op |-> "get_pending_sessions", event_id |-> event_id,
                          status_code |-> 200,
                          body |-> PendingSessions(FindEvent(events, event_id)[1],
                                                   attendance, now)]
    /\ UNCHANGED <<events, attendance, now, next_id, untouched>>

\* ------------------------------------------- specification: conflict detector

\* the minutes after 2024-01-02T10:00 at which stored and candidate
\* intervals start and end: a grid of half hours
ConflictOffsets == {0, 30, 60, 90}

ConflictTimes == {At(1, 10, m) : m \in ConflictOffsets}

\* the intervals create_event accepts: end_date > start_date
ConflictIntervals ==
    {iv \in ConflictTimes \X ConflictTimes : iv[1] < iv[2]}

\* the rows a stored event can be, but for its id: of every timing mode,
\* and completed
StoredShapes ==
    {shape \in ConflictIntervals \X TimingModes \X BOOLEAN :
        shape[3] => shape[2] = "specific"}

StoredRow(i, shape) ==
    [NewEvent(IdOf(i), "t", shape[1][1], shape[1][2], "medium", shape[2],
              None, None)
        EXCEPT !.is_completed = shape[3]]

\* the events tables of n rows
StoredTables(n) ==
    {[i \in 1..n |-> StoredRow(i, f[i])] : f \in [1..n -> StoredShapes]}

InitConflict ==
    /\ events \in UNION {StoredTables(n) : n \in 0..MaxStored}
    /\ attendance = <<>>
    /\ now = At(1, 0, 0)
    /\ next_id = Len(events) + 1
    /\ response = [op |-> "none"]
    /\ pomodoro_sessions = <<>>
    /\ in_flight = <<>>

\* a call of check_conflicts on the stored events
CheckConflicts(start_date, end_date, exclude_id) ==
    /\ response' = [op |-> "check_conflicts",
                    start_date |-> start_date, end_date |-> end_date,
                    exclude_id |-> exclude_id,
                    result |-> check_conflicts(events, start_date, end_date,
                                               exclude_id)]
    /\ UNCHANGED <<events, attendance, now, next_id, untouched>>

\* the function only reads, so one call per behaviour reaches every result
\* it can give
NextConflict ==
    /\ response.op = "none"
    /\ \E iv \in ConflictIntervals :
          \E exclude_id \in {None} \cup {events[i].id : i \in DOMAIN events
                                                          \cap {1}} :
              CheckConflicts(iv[1], iv[2], exclude_id)

SpecConflict == InitConflict /\ [][NextConflict]_vars

\* ------------------------------------------- specification: session statistics

\* an event with a daily window, from 09:00 of its first day to 18:00 of its
\* last
DailyEvent(id, first_day, last_day, dst, det) ==
    NewEvent(id, "t", At(first_day, 9, 0), At(last_day, 18, 0), "medium",
             "specific", dst, det)

\* the events whose sessions are counted: of one day, of three days, without
\* a daily window, and of three days with start_date and end_date
\* exchanged, as update_event stores them when asked to
StatsEvents ==
    {DailyEvent("e1", 0, 0, "09:00", "17:00"),
     DailyEvent("e1", 0, 2, "09:00", "17:00"),
     DailyEvent("e1", 0, 2, None, None),
     [DailyEvent("e1", 0, 2, "09:00", "17:00")
        EXCEPT !.start_date = At(2, 9, 0), !.end_date = At(0, 18, 0)]}

\* the sessions that can be marked: four days of event e1, the last of them
\* after the event's end, and one day of event e2
StatsKeys ==
    ({"e1"} \X {IsoFormat(d) : d \in 0..3}) \cup ({"e2"} \X {IsoFormat(0)})

\* the session_attendance tables that marking leads to: one row for each of
\* up to MaxRecords sessions, of any status
StatsTables ==
    UNION {{SetToBag({NewSession(k[1], k[2], f[k]) : k \in keys}) :
                f \in [keys -> SessionStatuses]} :
           keys \in {ks \in SUBSET StatsKeys : Cardinality(ks) <= MaxRecords}}

InitStats ==
    /\ \E e1 \in StatsEvents :
          events = <<e1, DailyEvent("e2", 0, 1, "09:00", "17:00")>>
    /\ attendance \in StatsTables
    /\ now = At(3, 12, 0)
    /\ next_id = 3
    /\ response = [op |-> "none"]
    /\ pomodoro_sessions = <<>>
    /\ in_flight = <<>>

\* one request for the statistics of an event; the handler only reads, so
\* one request per behaviour reaches every answer it can give
NextStats ==
    /\ response.op = "none"
    /\ \E event_id \in {"e1", "e9"} : get_session_stats(event_id)

SpecStats == InitStats /\ [][NextStats]_vars

\* ------------------------------------------ specification: total sessions

\* the times of day at which an event starts or ends
DayTimes == {<<0, 0>>, <<9, 0>>, <<23, 59>>}

TotalTimes == {At(d, hm[1], hm[2]) : d \in 0..MaxDay, hm \in DayTimes}

\* the daily windows an event can have: EventBase and EventUpdate take
\* daily_start_time and daily_end_time one by one
DailyWindows == {None, "09:00"} \X {None, "17:00"}

InitTotal ==
    /\ \E start_date \in TotalTimes, end_date \in TotalTimes,
          w \in DailyWindows :
          events = <<NewEvent("e1", "t", start_date, end_date, "medium",
                              "specific", w[1], w[2])>>
    /\ attendance = EmptyBag
    /\ now = At(0, 12, 0)
    /\ next_id = 2
    /\ response = [op |-> "none"]
    /\ pomodoro_sessions = <<>>
    /\ in_flight = <<>>

\* a call of calculate_total_sessions on the stored event
CalculateTotalSessions ==
    /\ response.op = "none"
    /\ response' = [op |-> "calculate_total_sessions",
                    result |-> calculate_total_sessions(events[1])]
    /\ UNCHANGED <<events, attendance, now, next_id, untouched>>

NextTotal == CalculateTotalSessions

SpecTotal == InitTotal /\ [][NextTotal]_vars


\* -------------------------------------------- specification: marking sessions

\* the requests that mark a session: every status on three days of event
\* e1, one on two days of event e2, one for an event that does not exist
MarkRequests ==
    ({"e1"} \X {IsoFormat(d) : d \in 0..2} \X SessionStatuses)
    \cup ({"e2"} \X {IsoFormat(d) : d \in 0..1} \X {"missed"})
    \cup ({"e9"} \X {IsoFormat(0)} \X {"attended"})

InitMark ==
    /\ events = <<DailyEvent("e1", 0, 2, "09:00", "17:00"),
                  DailyEvent("e2", 0, 1, "09:00", "17:00")>>
    /\ attendance = EmptyBag
    /\ now = At(3, 12, 0)
    /\ next_id = 3
    /\ response = [op |-> "none"]
    /\ pomodoro_sessions = <<>>
    /\ in_flight = <<>>

NextMark ==
    \/ \E m \in MarkRequests : create_session_attendance(m[1], m[2], m[3])
    \/ \E m \in MarkRequests : update_session_attendance(m[1], m[2], m[3])

SpecMark == InitMark /\ [][NextMark]_vars

\* ------------------------------------------- specification: pending sessions

\* the events whose pending sessions are asked for: of three days from
\* 2024-01-01, with a daily window to 17:00 or to 9:30, of two days from
\* 2024-01-02, without a daily window, and with start_date and end_date
\* exchanged
PendingEvents ==
    {DailyEvent("e1", 0, 2, "09:00", "17:00"),
     DailyEvent("e1", 0, 2, "8:00", "9:30"),
     DailyEvent("e1", 1, 2, "09:00", "17:00"),
     DailyEvent("e1", 0, 2, None, "17:00"),
     [DailyEvent("e1", 0, 2, "09:00", "17:00")
        EXCEPT !.start_date = At(2, 9, 0), !.end_date = At(0, 18, 0)]}

\* the session_attendance tables of the pending specification: rows of two
\* statuses, which the handler does not read
PendingTables ==
    UNION {{SetToBag({NewSession(k[1], k[2], f[k]) : k \in keys}) :
                f \in [keys -> {"attended", "pending"}]} :
           keys \in {ks \in SUBSET StatsKeys : Cardinality(ks) <= MaxRecords}}

\* the times at which the pending sessions are asked for
PendingClocks ==
    {At(d, hm[1], hm[2]) :
        d \in 0..3, hm \in {<<9, 29>>, <<9, 30>>, <<16, 0>>, <<17, 0>>, <<18, 5>>}}

InitPending ==
    /\ \E e1 \in PendingEvents :
          events = <<e1, DailyEvent("e2", 0, 1, "09:00", "17:00")>>
    /\ attendance \in PendingTables
    /\ now \in PendingClocks
    /\ next_id = 3
    /\ response = [op |-> "none"]
    /\ pomodoro_sessions = <<>>
    /\ in_flight = <<>>

\* one request for the pending sessions of an event
NextPending ==
    /\ response.op = "none"
    /\ \E event_id \in {"e1", "e9"} : get_pending_sessions(event_id)

SpecPending == InitPending /\ [][NextPending]_vars


\* ------------------------------------------------ the HTTP event operations

\* the time of the clock itself, without the replace
TodayToTheSecond(clock) == clock

\* datetime.now().replace(hour=0, minute=0, second=0, microsecond=0)
TodayMidnight(clock) == DateOf(clock) * SecondsPerDay

\* the table with the row of event_id replaced by row
ReplaceEvent(db, event_id, row) ==
    [i \in DOMAIN db |-> IF db[i].id = event_id THEN row ELSE db[i]]

\* an update that does not assign a daily window of None
ApplyUpdateNotNone(event, update_data) ==
    [field \in DOMAIN event |->
        IF /\ field \in DOMAIN update_data
           /\ ~(/\ field \in {"daily_start_time", "daily_end_time"}
                /\ update_data[field] = None)
        THEN update_data[field]
        ELSE event[field]]

\* for field, value in update_data.items(): setattr(event, field, value)
ApplyUpdate(event, update_data) ==
    [field \in DOMAIN event |->
        IF field \in DOMAIN update_data
        THEN update_data[field]
        ELSE event[field]]

\* Event(**event_data.model_dump()), with the id that the column default
\* draws
EventOf(id, event_data) ==
    NewEvent(id, event_data.title, event_data.start_date,
             event_data.end_date, event_data.priority,
             event_data.timing_mode, event_data.daily_start_time,
             event_data.daily_end_time)

\* create_event as it would be with the call of check_conflicts that the
\* source comments out: 409 for a stored event that is too close
create_event_rejecting_conflicts(event_data) ==
    /\ IF event_data.end_date <= event_data.start_date
       THEN /\ response' = [op |-> "create_event", request |-> event_data,
                            status_code |-> 400,
                            body |-> "End time must be after start time"]
            /\ UNCHANGED <<events, next_id>>
       ELSE IF event_data.start_date < TodayMidnight(now)
       THEN /\ response' = [op |-> "create_event", request |-> event_data,
                            status_code |-> 400,
                            body |-> "Cannot schedule events in the past"]
            /\ UNCHANGED <<events, next_id>>
       ELSE IF check_conflicts(events, event_data.start_date,
                               event_data.end_date, None) # <<>>
       THEN /\ response' = [op |-> "create_event", request |-> event_data,
                            status_code |-> 409,
                            body |-> "Time slot conflicts"]
            /\ UNCHANGED <<events, next_id>>
       ELSE /\ next_id <= MaxEvents
            /\ events' = Append(events, EventOf(IdOf(next_id), event_data))
            /\ next_id' = next_id + 1
            /\ response' = [op |-> "create_event", request |-> event_data,
                            status_code |-> 201,
                            body |-> EventOf(IdOf(next_id), event_data)]
    /\ UNCHANGED <<attendance, now, untouched>>

\* POST /api/events/
create_event(event_data) ==
    /\ IF event_data.end_date <= event_data.start_date
       THEN /\ response' = [op |-> "create_event", request |-> event_data,
                            status_code |-> 400,
                            body |-> "End time must be after start time"]
            /\ UNCHANGED <<events, next_id>>
       ELSE IF event_data.start_date < TodayMidnight(now)
       THEN /\ response' = [op |-> "create_event", request |-> event_data,
                            status_code |-> 400,
                            body |-> "Cannot schedule events in the past"]
            /\ UNCHANGED <<events, next_id>>
       ELSE /\ next_id <= MaxEvents
            /\ events' = Append(events, EventOf(IdOf(next_id), event_data))
            /\ next_id' = next_id + 1
            /\ response' = [op |-> "create_event", request |-> event_data,
                            status_code |-> 201,
                            body |-> EventOf(IdOf(next_id), event_data)]
    /\ UNCHANGED <<attendance, now, untouched>>

\* query.order_by(Event.start_date).all(): the lists of the rows in the
\* order of start_date, rows of the same start_date in any order
OrderedByStart(db) ==
    {[i \in DOMAIN db |-> db[p[i]]] :
        p \in {q \in [DOMAIN db -> DOMAIN db] :
                  /\ \A i, j \in DOMAIN db : i # j => q[i] # q[j]
                  /\ \A i, j \in DOMAIN db :
                        i < j => db[q[i]].start_date <= db[q[j]].start_date}}

\* GET /api/events/, without a filter
get_events ==
    /\ \E listed \in OrderedByStart(events) :
          response' = [op |-> "get_events", status_code |-> 200,
                       body |-> listed]
    /\ UNCHANGED <<events, attendance, now, next_id, untouched>>

\* GET /api/events/{event_id}
get_event(event_id) ==
    LET event == FindEvent(events, event_id)
    IN  /\ response' = IF event = <<>>
                        THEN [op |-> "get_event", event_id |-> event_id,
                              status_code |-> 404,
                              body |-> "Event not found"]
                        ELSE [op |-> "get_event", event_id |-> event_id,
                              status_code |-> 200, body |-> event[1]]
        /\ UNCHANGED <<events, attendance, now, next_id, untouched>>

\* PUT /api/events/{event_id}
update_event(event_id, event_data) ==
    LET event == FindEvent(events, event_id)
    IN  /\ IF event = <<>>
           THEN /\ response' = [op |-> "update_event",
                                event_id |-> event_id,
                                request |-> event_data,
                                status_code |-> 404,
                                body |-> "Event not found"]
                /\ UNCHANGED events
           ELSE /\ events' = ReplaceEvent(events, event_id,
                                          ApplyUpdate(event[1], event_data))
                /\ response' = [op |-> "update_event",
                                event_id |-> event_id,
                                request |-> event_data,
                                status_code |-> 200,
                                body |-> ApplyUpdate(event[1], event_data)]
        /\ UNCHANGED <<attendance, now, next_id, untouched>>

\* DELETE /api/events/bulk, without a category
delete_all_events ==
    /\ events' = <<>>
    /\ response' = [op |-> "delete_all_events", status_code |-> 200,
                    body |-> [deleted |-> Len(events)]]
    /\ UNCHANGED <<attendance, now, next_id, untouched>>

\* a delete that takes the session_attendance rows of the event with it
delete_event_cascading(event_id) ==
    LET event == FindEvent(events, event_id)
    IN  /\ IF event = <<>>
           THEN /\ response' = [op |-> "delete_event",
                                event_id |-> event_id,
                                status_code |-> 404,
                                body |-> "Event not found"]
                /\ UNCHANGED <<events, attendance>>
           ELSE /\ events' = SelectSeq(events, LAMBDA e: e.id # event_id)
                /\ attendance' =
                      [s \in {r \in DOMAIN attendance :
                                 r.event_id # event_id} |-> attendance[s]]
                /\ response' = [op |-> "delete_event",
                                event_id |-> event_id,
                                status_code |-> 204,
                                body |-> None]
        /\ UNCHANGED <<now, next_id, untouched>>

\* DELETE /api/events/{event_id}
delete_event(event_id) ==
    LET event == FindEvent(events, event_id)
    IN  /\ IF event = <<>>
           THEN /\ response' = [op |-> "delete_event",
                                event_id |-> event_id,
                                status_code |-> 404,
                                body |-> "Event not found"]
                /\ UNCHANGED events
           ELSE /\ events' = SelectSeq(events, LAMBDA e: e.id # event_id)
                /\ response' = [op |-> "delete_event",
                                event_id |-> event_id,
                                status_code |-> 204,
                                body |-> None]
        /\ UNCHANGED <<attendance, now, next_id, untouched>>

\* a handler that sets is_completed instead of negating it
toggle_event_completion_setting(event_id) ==
    LET event == FindEvent(events, event_id)
    IN  /\ IF event = <<>>
           THEN /\ response' = [op |-> "toggle_event_completion",
                                event_id |-> event_id,
                                status_code |-> 404,
                                body |-> "Event not found"]
                /\ UNCHANGED events
           ELSE IF ~event[1].is_completed /\ event[1].start_date > now
           THEN /\ response' = [op |-> "toggle_event_completion",
                                event_id |-> event_id,
                                status_code |-> 400,
                                body |-> "Cannot mark as complete"]
                /\ UNCHANGED events
           ELSE LET toggled == [event[1] EXCEPT !.is_completed = TRUE]
                IN  /\ events' = ReplaceEvent(events, event_id, toggled)
                    /\ response' = [op |-> "toggle_event_completion",
                                    event_id |-> event_id,
                                    status_code |-> 200,
                                    body |-> toggled]
        /\ UNCHANGED <<attendance, now, next_id, untouched>>

\* PATCH /api/events/{event_id}/toggle-complete
toggle_event_completion(event_id) ==
    LET event == FindEvent(events, event_id)
    IN  /\ IF event = <<>>
           THEN /\ response' = [op |-> "toggle_event_completion",
                                event_id |-> event_id,
                                status_code |-> 404,
                                body |-> "Event not found"]
                /\ UNCHANGED events
           ELSE IF ~event[1].is_completed /\ event[1].start_date > now
           THEN /\ response' = [op |-> "toggle_event_completion",
                                event_id |-> event_id,
                                status_code |-> 400,
                                body |-> "Cannot mark as complete"]
                /\ UNCHANGED events
           ELSE LET toggled == [event[1] EXCEPT
                                   !.is_completed = ~event[1].is_completed]
                IN  /\ events' = ReplaceEvent(events, event_id, toggled)
                    /\ response' = [op |-> "toggle_event_completion",
                                    event_id |-> event_id,
                                    status_code |-> 200,
                                    body |-> toggled]
        /\ UNCHANGED <<attendance, now, next_id, untouched>>

RECURSIVE ImportFromStopping(_, _, _, _, _)
\* a loop that ends at the first item it reports
ImportFromStopping(schedule, idx, imported, errors, id) ==
    IF idx > Len(schedule)
    THEN [imported |-> imported, errors |-> errors]
    ELSE LET item == schedule[idx]
         IN  IF item.end_date <= item.start_date
             THEN [imported |-> imported,
                   errors |-> Append(errors,
                       [index |-> idx - 1, title |-> item.title,
                        error |-> "End time must be after start time"])]
             ELSE ImportFromStopping(schedule, idx + 1,
                      Append(imported, EventOf(IdOf(id), item)),
                      errors, id + 1)

\* the loop of import_schedule over payload.schedule from item idx on, with
\* the lists imported and errors so far and the number of the next id
RECURSIVE ImportFrom(_, _, _, _, _)
ImportFrom(schedule, idx, imported, errors, id) ==
    IF idx > Len(schedule)
    THEN [imported |-> imported, errors |-> errors]
    ELSE LET item == schedule[idx]
         IN  IF item.end_date <= item.start_date
             THEN ImportFrom(schedule, idx + 1, imported,
                      Append(errors,
                             [index |-> idx - 1, title |-> item.title,
                              error |-> "End time must be after start time"]),
                      id)
             ELSE ImportFrom(schedule, idx + 1,
                      Append(imported, EventOf(IdOf(id), item)),
                      errors, id + 1)

\* an import that commits item by item: a commit that fails leaves the
\* items before it stored
import_schedule_item_by_item(schedule) ==
    LET result == ImportFrom(schedule, 1, <<>>, <<>>, next_id)
    IN  /\ next_id + Len(result.imported) <= MaxEvents + 1
        /\ \/ /\ events' = events \o result.imported
              /\ next_id' = next_id + Len(result.imported)
              /\ response' = [op |-> "import_schedule",
                              request |-> schedule,
                              status_code |-> 201,
                              body |-> [imported |-> result.imported,
                                        errors |-> result.errors,
                                        total_received |-> Len(schedule),
                                        total_imported |->
                                            Len(result.imported),
                                        total_errors |-> Len(result.errors)]]
           \/ /\ result.imported # <<>>
              /\ \E k \in 0..(Len(result.imported) - 1) :
                    /\ events' = events \o SubSeq(result.imported, 1, k)
                    /\ next_id' = next_id + k
              /\ response' = [op |-> "import_schedule",
                              request |-> schedule,
                              status_code |-> 500,
                              body |-> "Failed to commit imported events"]
        /\ UNCHANGED <<attendance, now, untouched>>

\* POST /api/import/schedule: the items are added in payload order and
\* committed together; a commit that fails rolls all of them back
import_schedule(schedule) ==
    LET result == ImportFrom(schedule, 1, <<>>, <<>>, next_id)
    IN  /\ next_id + Len(result.imported) <= MaxEvents + 1
        /\ \/ /\ events' = events \o result.imported
              /\ next_id' = next_id + Len(result.imported)
              /\ response' = [op |-> "import_schedule",
                              request |-> schedule,
                              status_code |-> 201,
                              body |-> [imported |-> result.imported,
                                        errors |-> result.errors,
                                        total_received |-> Len(schedule),
                                        total_imported |->
                                            Len(result.imported),
                                        total_errors |-> Len(result.errors)]]
           \/ /\ result.imported # <<>>
              /\ UNCHANGED <<events, next_id>>
              /\ response' = [op |-> "import_schedule",
                              request |-> schedule,
                              status_code |-> 500,
                              body |-> "Failed to commit imported events"]
        /\ UNCHANGED <<attendance, now, untouched>>

\* ------------------------------------------ specification: event operations

\* the start of the base event of the requests: 2024-01-02T10:00
BaseStart == At(1, 10, 0)

\* the request bodies of create_event and the items of import_schedule: the
\* base event of two hours, its copy 30 minutes later, a longer event with
\* the same start (and a daily_start_time without a daily_end_time), an
\* event that ends before it starts, one of no duration and one on the day
\* before
EventBody(start_date, end_date) ==
    [title |-> "a", start_date |-> start_date, end_date |-> end_date,
     priority |-> "medium", timing_mode |-> "specific",
     daily_start_time |-> None, daily_end_time |-> None]

CreateBodies ==
    {EventBody(BaseStart, BaseStart + 2 * SecondsPerHour),
     EventBody(BaseStart + 30 * SecondsPerMinute,
               BaseStart + 2 * SecondsPerHour + 30 * SecondsPerMinute),
     [EventBody(BaseStart, BaseStart + 4 * SecondsPerHour)
        EXCEPT !.daily_start_time = "09:00"],
     EventBody(BaseStart + 2 * SecondsPerHour, BaseStart),
     EventBody(BaseStart, BaseStart),
     EventBody(BaseStart - SecondsPerDay,
               BaseStart - SecondsPerDay + 2 * SecondsPerHour)}

\* the request bodies of update_event, with the fields that were set: an
\* end_date before every start, one after every start, and is_completed
UpdateBodies ==
    {[end_date |-> BaseStart - SecondsPerHour],
     [end_date |-> BaseStart + 4 * SecondsPerHour],
     [is_completed |-> TRUE]}

\* the items of the payloads of import_schedule
ImportItems ==
    {EventBody(BaseStart, BaseStart + 2 * SecondsPerHour),
     [EventBody(BaseStart + 2 * SecondsPerHour, BaseStart)
        EXCEPT !.title = "b"]}

\* the payloads of import_schedule: at least one item
ImportPayloads ==
    UNION {[1..n -> ImportItems] : n \in 1..MaxPayload}

\* the ids that requests address: those of the events created, and one
\* that no event has
RequestIds == {IdOf(i) : i \in 1..MaxEvents} \cup {"e0"}

\* the times at which the clock is read
Clocks == {At(1, 9, 0), At(1, 11, 0)}

\* time passes
Tick ==
    /\ \E t \in Clocks : t > now /\ now' = t
    /\ UNCHANGED <<events, attendance, next_id, response, untouched>>

Init ==
    /\ events = <<>>
    /\ attendance = EmptyBag
    /\ now = At(1, 9, 0)
    /\ next_id = 1
    /\ response = [op |-> "none"]
    /\ pomodoro_sessions = <<>>
    /\ in_flight = <<>>

Next ==
    \/ \E event_data \in CreateBodies : create_event(event_data)
    \/ \E event_id \in RequestIds, event_data \in UpdateBodies :
          update_event(event_id, event_data)
    \/ \E event_id \in RequestIds : toggle_event_completion(event_id)
    \/ \E event_id \in RequestIds : delete_event(event_id)
    \/ delete_all_events
    \/ \E schedule \in ImportPayloads : import_schedule(schedule)
    \/ Tick

Spec == Init /\ [][Next]_vars


\* ------------------------------------------- specification: import and list

\* the items of the payloads that are imported and listed: three that
\* are valid, the second of them with the earlier start and the third
\* with the start of the first, and one that ends before it starts
BatchItems ==
    {EventBody(BaseStart, BaseStart + 2 * SecondsPerHour),
     [EventBody(BaseStart - SecondsPerHour, BaseStart + SecondsPerHour)
        EXCEPT !.title = "c"],
     [EventBody(BaseStart, BaseStart + SecondsPerHour)
        EXCEPT !.title = "d"],
     [EventBody(BaseStart + 2 * SecondsPerHour, BaseStart)
        EXCEPT !.title = "b"]}

BatchPayloads ==
    UNION {[1..n -> BatchItems] : n \in 1..MaxPayload}

\* imports and listings in any order, from the empty table of Init
NextImport ==
    \/ \E schedule \in BatchPayloads : import_schedule(schedule)
    \/ get_events

SpecImport == Init /\ [][NextImport]_vars

\* ---------------------------------- specification: marking one more session

\* the requests that mark a session of the stored tables: skipped or
\* attended on one of the four days of event e1, and one for an event that
\* does not exist
SkipRequests ==
    ({"e1"} \X {IsoFormat(d) : d \in 0..3} \X {"skipped", "attended"})
    \cup ({"e9"} \X {IsoFormat(0)} \X {"skipped"})

InitSkip ==
    /\ \E e1 \in StatsEvents :
          events = <<e1, DailyEvent("e2", 0, 1, "09:00", "17:00")>>
    /\ attendance \in StatsTables
    /\ now = At(3, 12, 0)
    /\ next_id = 3
    /\ response = [op |-> "none"]
    /\ pomodoro_sessions = <<>>
    /\ in_flight = <<>>

\* one request that marks a session, on any table that marking leads to
NextSkip ==
    /\ response.op = "none"
    /\ \/ \E m \in SkipRequests :
             create_session_attendance(m[1], m[2], m[3])
       \/ \E m \in SkipRequests :
             update_session_attendance(m[1], m[2], m[3])

SpecSkip == InitSkip /\ [][NextSkip]_vars

\* ------------------------------------------- specification: the read requests

\* the events that are read: of three days with a daily window, without
\* one, and of one day
ReadEvents ==
    {DailyEvent("e1", 0, 2, "09:00", "17:00"),
     DailyEvent("e1", 0, 2, None, None),
     DailyEvent("e1", 1, 1, "09:00", "17:00")}

\* the sessions that are marked in the tables that are read
ReadKeys ==
    ({"e1"} \X {IsoFormat(d) : d \in {0, 1, 3}}) \cup ({"e2"} \X {IsoFormat(0)})

\* the session_attendance tables that are read
ReadTables ==
    UNION {{SetToBag({NewSession(k[1], k[2], f[k]) : k \in keys}) :
                f \in [keys -> {"attended", "missed"}]} :
           keys \in {ks \in SUBSET ReadKeys : Cardinality(ks) <= MaxRecords}}

\* the intervals that check_conflicts is asked for: that of the event of
\* three days, and one of 2024-01-05
ReadIntervals ==
    {<<At(0, 9, 0), At(2, 18, 0)>>, <<At(4, 9, 0), At(4, 18, 0)>>}

InitRead ==
    /\ \E e1 \in ReadEvents :
          events = <<e1, DailyEvent("e2", 0, 1, "09:00", "17:00")>>
    /\ attendance \in ReadTables
    /\ now \in {At(1, 12, 0), At(2, 17, 30)}
    /\ next_id = 3
    /\ response = [op |-> "none"]
    /\ pomodoro_sessions = <<>>
    /\ in_flight = <<>>

\* the requests that only read, any number of them one after the other
NextRead ==
    \/ \E event_id \in {"e1", "e9"} : get_session_stats(event_id)
    \/ \E event_id \in {"e1", "e9"} : get_pending_sessions(event_id)
    \/ \E iv \in ReadIntervals, exclude_id \in {None, "e1"} :
          CheckConflicts(iv[1], iv[2], exclude_id)

SpecRead == InitRead /\ [][NextRead]_vars

\* ------------------------------- specification: the sessions of an event

\* the requests that mark a session: one of the three days of event e1 or
\* the day after its end, as attended, skipped or pending
SessionRequests ==
    {"e1"} \X {IsoFormat(d) : d \in 0..3}
           \X {"attended", "skipped", "pending"}

\* the times at which the clock is read: before and at the end of the
\* first session, before the end of the second, after the end of the
\* third, and on the day after the event
SessionClocks ==
    {At(0, 12, 0), At(0, 17, 0), At(1, 16, 0), At(2, 17, 30), At(3, 9, 0)}

InitSessions ==
    /\ events = <<DailyEvent("e1", 0, 2, "09:00", "17:00")>>
    /\ attendance = EmptyBag
    /\ now = At(0, 12, 0)
    /\ next_id = 2
    /\ response = [op |-> "none"]
    /\ pomodoro_sessions = <<>>
    /\ in_flight = <<>>

\* time passes
TickSessions ==
    /\ \E t \in SessionClocks : t > now /\ now' = t
    /\ UNCHANGED <<events, attendance, next_id, response, untouched>>

\* the sessions operations on event e1, in any order, while time passes
NextSessions ==
    \/ \E m \in SessionRequests :
          create_session_attendance(m[1], m[2], m[3])
    \/ \E m \in SessionRequests :
          update_session_attendance(m[1], m[2], m[3])
    \/ get_session_stats("e1")
    \/ get_pending_sessions("e1")
    \/ TickSessions

SpecSessions == InitSessions /\ [][NextSessions]_vars

\* ------------------------------------- marking requests, statement by statement

\* the workers that handle requests on the same database, each in a
\* database session of its own (get_db)
Workers == {1, 2}

\* the in_flight table without the request of worker w
Finished(w) == [v \in DOMAIN in_flight \ {w} |-> in_flight[v]]

\* worker w takes up a marking request: op is the handler, POST
\* create_session_attendance or PATCH update_session_attendance
begin_marking(w, op, event_id, session_date, status) ==
    /\ w \notin DOMAIN in_flight
    /\ in_flight' = [v \in DOMAIN in_flight \cup {w} |->
                        IF v = w
                        THEN [op |-> op, event_id |-> event_id,
                              session_date |-> session_date,
                              status |-> status, pc |-> "read",
                              existing |-> FALSE]
                        ELSE in_flight[v]]
    /\ UNCHANGED <<events, attendance, now, next_id, response,
                   pomodoro_sessions>>

\* the queries of the handler: POST looks for the event, answers 404
\* without one, and then looks for the record; PATCH looks for the record
\* and, without one, for the event
marking_reads(w) ==
    /\ w \in DOMAIN in_flight
    /\ in_flight[w].pc = "read"
    /\ LET request == in_flight[w]
           event == FindEvent(events, request.event_id)
           existing == BagToSet(SessionsOn(attendance, request.event_id,
                                           request.session_date)) # {}
       IN  IF /\ event = <<>>
              /\ request.op = "create_session_attendance" \/ ~existing
           THEN /\ response' = [op |-> request.op, status_code |-> 404]
                /\ in_flight' = Finished(w)
           ELSE /\ in_flight' = [in_flight EXCEPT
                                    ![w].pc = "write",
                                    ![w].existing = existing]
                /\ UNCHANGED response
    /\ UNCHANGED <<events, attendance, now, next_id, pomodoro_sessions>>

\* the assignment or the db.add of the handler, and its commit: the record
\* that was read gets the status, or a new record is inserted (the rows
\* carry no primary key here: of two records of the session either is
\* taken for the one that was read)
marking_writes(w) ==
    /\ w \in DOMAIN in_flight
    /\ in_flight[w].pc = "write"
    /\ LET request == in_flight[w]
       IN  /\ IF request.existing
              THEN \E session \in BagToSet(SessionsOn(attendance,
                                       request.event_id,
                                       request.session_date)) :
                      attendance' = (attendance (-) SetToBag({session}))
                          (+) SetToBag({[session EXCEPT
                                           !.status = request.status]})
              ELSE attendance' = attendance
                      (+) SetToBag({NewSession(request.event_id,
                                               request.session_date,
                                               request.status)})
           /\ response' =
                 [op |-> request.op,
                  status_code |->
                      IF request.op = "create_session_attendance"
                      THEN 201 ELSE 200,
                  body |-> NewSession(request.event_id,
                                      request.session_date, request.status)]
    /\ in_flight' = Finished(w)
    /\ UNCHANGED <<events, now, next_id, pomodoro_sessions>>

\* ----------------------------------- specification: marking at the same time

\* the marking requests: both handlers, for two days of event e1 and for
\* an event that does not exist
RaceRequests ==
    ({"create_session_attendance", "update_session_attendance"}
        \X {"e1"} \X {IsoFormat(0), IsoFormat(1)} \X {"attended", "missed"})
    \cup ({"create_session_attendance", "update_session_attendance"}
            \X {"e9"} \X {IsoFormat(0)} \X {"attended"})

InitRace ==
    /\ events = <<DailyEvent("e1", 0, 2, "09:00", "17:00")>>
    /\ attendance \in {EmptyBag,
                        SetToBag({NewSession("e1", IsoFormat(0), "missed")})}
    /\ now = At(3, 12, 0)
    /\ next_id = 2
    /\ response = [op |-> "none"]
    /\ pomodoro_sessions = <<>>
    /\ in_flight = <<>>

NextRace ==
    \/ \E w \in Workers, m \in RaceRequests :
          begin_marking(w, m[1], m[2], m[3], m[4])
    \/ \E w \in Workers : marking_reads(w)
    \/ \E w \in Workers : marking_writes(w)

SpecRace == InitRace /\ [][NextRace]_vars

\* ------------------------------------------------------ pomodoro sessions

\* the most rows of table pomodoro_sessions
MaxSessions == 4

RECURSIVE IntOf(_)
\* int(s) of a string of decimal digits
IntOf(s) ==
    IF Len(s) = 0 THEN 0
    ELSE 10 * IntOf(SubSeq(s, 1, Len(s) - 1))
         + CharRank(SubSeq(s, Len(s), Len(s))) - 1

\* PomodoroSession(mode=..., duration=str(session_data.duration),
\* completed=...)
NewPomodoroSession(session_data) ==
    [mode |-> session_data.mode,
     duration |-> ToString(session_data.duration),
     completed |-> session_data.completed]

\* a query without the filter on mode
EverySession(rows) == rows

\* db.query(PomodoroSession).filter(PomodoroSession.mode == "work").all()
WorkSessions(rows) == SelectSeq(rows, LAMBDA s: s.mode = "work")

RECURSIVE SumDurations(_)
\* sum(int(s.duration) for s in sessions)
SumDurations(sessions) ==
    IF sessions = <<>> THEN 0
    ELSE IntOf(Head(sessions).duration) + SumDurations(Tail(sessions))

\* round(n / d, 1) in tenths: the nearest tenth, the even one of two
\* equally near (with fewer than 20 sessions two tenths are equally near
\* only for a multiple of a quarter, which a float holds exactly)
RoundedAverage(n, d) ==
    LET q == (n * 10) \div d
        r == (n * 10) % d
    IN  IF 2 * r > d THEN q + 1
        ELSE IF 2 * r = d THEN q + (q % 2)
        ELSE q

\* the PomodoroStats that get_stats builds from the table;
\* average_session_length is in tenths of a minute
PomodoroStats(rows) ==
    LET sessions == WorkSessions(rows)
        completed == SelectSeq(sessions, LAMBDA s: s.completed)
        total_work_time == SumDurations(completed) \div 60
    IN  [total_sessions |-> Len(sessions),
         total_work_time |-> total_work_time,
         completed_sessions |-> Len(completed),
         average_session_length |->
             IF Len(completed) > 0
             THEN RoundedAverage(total_work_time, Len(completed))
             ELSE 0]

\* POST /api/pomodoro/sessions
create_session(session_data) ==
    /\ Len(pomodoro_sessions) < MaxSessions
    /\ pomodoro_sessions' =
          Append(pomodoro_sessions, NewPomodoroSession(session_data))
    /\ response' = [op |-> "create_session", status_code |-> 201,
                    body |-> NewPomodoroSession(session_data)]
    /\ UNCHANGED <<events, attendance, now, next_id, in_flight>>

\* GET /api/pomodoro/stats
get_stats ==
    /\ response' = [op |-> "get_stats", status_code |-> 200,
                    body |-> PomodoroStats(pomodoro_sessions)]
    /\ UNCHANGED <<events, attendance, now, next_id, pomodoro_sessions,
                   in_flight>>

\* ------------------------------------------- specification: pomodoro sessions

\* the request bodies of create_session: work sessions of 15 and of 1500
\* seconds, completed or not, and a completed short break of 300 seconds
SessionBodies ==
    {[mode |-> "work", duration |-> d, completed |-> c] :
        d \in {15, 1500}, c \in BOOLEAN}
    \cup {[mode |-> "shortBreak", duration |-> 300, completed |-> TRUE]}

InitPomodoro ==
    /\ events = <<>>
    /\ attendance = EmptyBag
    /\ now = 0
    /\ next_id = 1
    /\ response = [op |-> "none"]
    /\ pomodoro_sessions = <<>>
    /\ in_flight = <<>>

NextPomodoro ==
    \/ \E session_data \in SessionBodies : create_session(session_data)
    \/ get_stats

SpecPomodoro == InitPomodoro /\ [][NextPomodoro]_vars

\* ------------------------------- specification: editing the stored events

\* the events that are edited: e1 of three days with a daily window or
\* without one, and e2 of two days
EditEvents ==
    {<<e1, DailyEvent("e2", 0, 1, "09:00", "17:00")>> :
        e1 \in {DailyEvent("e1", 0, 2, "09:00", "17:00"),
                DailyEvent("e1", 0, 2, None, None)}}

\* the session_attendance tables at hand: none, a record of each event, and
\* two of e1 and one of e2
EditTables ==
    {EmptyBag,
     SetToBag({NewSession("e1", IsoFormat(0), "attended"),
               NewSession("e2", IsoFormat(0), "missed")}),
     SetToBag({NewSession("e1", IsoFormat(0), "attended"),
               NewSession("e1", IsoFormat(1), "missed"),
               NewSession("e2", IsoFormat(0), "missed")})}

\* the request bodies of update_event, with the fields that were set: title
\* and priority, a daily window, a daily window of null, an end_date
\* before the start, and is_completed
EditBodies ==
    {[title |-> "b", priority |-> "high"],
     [daily_start_time |-> "10:00", daily_end_time |-> "16:00"],
     [daily_start_time |-> None, daily_end_time |-> None],
     [end_date |-> At(0, 8, 0)],
     [is_completed |-> TRUE]}

\* the ids of the requests: of the two events and of none
EditIds == {"e1", "e2", "e9"}

InitEdit ==
    /\ events \in EditEvents
    /\ attendance \in EditTables
    /\ now = At(1, 12, 0)
    /\ next_id = 3
    /\ response = [op |-> "none"]
    /\ pomodoro_sessions = <<>>
    /\ in_flight = <<>>

\* the requests that read, change and delete one event, in any order
NextEdit ==
    \/ \E event_id \in EditIds, event_data \in EditBodies :
          update_event(event_id, event_data)
    \/ \E event_id \in EditIds : delete_event(event_id)
    \/ \E event_id \in EditIds : get_event(event_id)

SpecEdit == InitEdit /\ [][NextEdit]_vars

\* ------------------------------------------------ claims: conflict detector

\* what the claims call an eligible stored event
C_Eligible(e, exclude_id) ==
    /\ e.timing_mode \in {"specific", "deadline"}
    /\ ~e.is_completed
    /\ e.id # exclude_id

\* the strict overlap of a stored event with the candidate interval
C_Overlaps(e, r) == e.start_date < r.end_date /\ e.end_date > r.start_date

C_StartDiff(e, r) == Abs(e.start_date - r.start_date)
C_EndDiff(e, r) == Abs(e.end_date - r.end_date)

\* a stored event the near-duplicate rule reports for the request r
C_Qualifies(e, r) ==
    /\ C_Eligible(e, r.exclude_id)
    /\ C_Overlaps(e, r)
    /\ C_StartDiff(e, r) < 3600
    /\ C_EndDiff(e, r) < 3600

\* C1: check_conflicts returns a stored event if and only if some eligible
\* stored event overlaps the candidate and has both its start and its end
\* less than 3600 s from the candidate's; the event returned is the first
\* such event in query order, otherwise the result is None. Hence identical
\* intervals and a 30-minute shift of both ends conflict, and a difference
\* of exactly 3600 s on either end does not.
C1_ThresholdRule ==
    response.op = "check_conflicts" =>
        LET r == response
            hits == {i \in DOMAIN events : C_Qualifies(events[i], r)}
        IN  /\ (r.result # <<>>) <=> (hits # {})
            /\ hits # {} =>
                 /\ r.result = <<events[CHOOSE i \in hits :
                                           \A j \in hits : i <= j]>>
                 /\ C_StartDiff(r.result[1], r) # 3600
                 /\ C_EndDiff(r.result[1], r) # 3600
            /\ \A i \in DOMAIN events :
                 /\ C_Eligible(events[i], r.exclude_id)
                 /\ C_Overlaps(events[i], r)
                 /\ C_StartDiff(events[i], r) = C_EndDiff(events[i], r)
                 /\ C_StartDiff(events[i], r) \in {0, 1800}
                 => r.result # <<>>

\* C1 witness: the first stored event overlaps the candidate with a start
\* exactly 3600 s away and is passed over, the second is the candidate
\* shifted by 30 minutes and is returned.
C1_Witness ==
    /\ response.op = "check_conflicts"
    /\ Len(events) = 2
    /\ C_Eligible(events[1], response.exclude_id)
    /\ C_Overlaps(events[1], response)
    /\ C_StartDiff(events[1], response) = 3600
    /\ C_EndDiff(events[1], response) = 0
    /\ C_StartDiff(events[2], response) = 1800
    /\ C_EndDiff(events[2], response) = 1800
    /\ response.result = <<events[2]>>

\* C10: check_conflicts never returns an event whose interval does not
\* strictly overlap the candidate: an event that only touches the candidate
\* at an endpoint, or is disjoint from it, is never the result, even with
\* both differences under one hour.
C10_StrictOverlap ==
    response.op = "check_conflicts" =>
        /\ \A i \in 1..Len(response.result) :
             /\ response.result[i].start_date < response.end_date
             /\ response.result[i].end_date > response.start_date
        /\ (\A i \in DOMAIN events :
                \/ events[i].end_date <= response.start_date
                \/ events[i].start_date >= response.end_date)
           => response.result = <<>>

\* C10 witness: the only stored event is eligible, ends where the candidate
\* starts and has both differences under one hour; the result is None.
C10_Witness ==
    /\ response.op = "check_conflicts"
    /\ Len(events) = 1
    /\ C_Eligible(events[1], response.exclude_id)
    /\ events[1].end_date = response.start_date
    /\ C_StartDiff(events[1], response) < 3600
    /\ C_EndDiff(events[1], response) < 3600
    /\ response.result = <<>>

\* ----------------------------------------------- claims: session statistics

\* the rows of an event in the session_attendance table
C_Rows(event_id) == {r \in BagToSet(attendance) : r.event_id = event_id}

\* the number of an event's rows with a status
C_Count(event_id, status) ==
    BagCardinality([r \in {x \in C_Rows(event_id) : x.status = status}
                      |-> attendance[r]])

\* the day, counted from 2024-01-01, that a "YYYY-MM-DD" string names
C_DayOf(session_date) == CHOOSE d \in 0..7 : IsoFormat(d) = session_date

\* the answer of a successful get_session_stats request
C_StatsAnswered ==
    response.op = "get_session_stats" /\ response.status_code = 200

\* C3: get_session_stats reports attended, missed and skipped as the number
\* of the event's records with that status and pending = max(0,
\* total_sessions - attended - missed - skipped), never negative; with no
\* records pending equals total_sessions, with rate 0 and streak 0.
C3_CountsAndPending ==
    C_StatsAnswered =>
        LET b == response.body
            id == response.event_id
            rest == b.total_sessions - b.attended - b.missed - b.skipped
        IN  /\ b.attended = C_Count(id, "attended")
            /\ b.missed = C_Count(id, "missed")
            /\ b.skipped = C_Count(id, "skipped")
            /\ b.pending = (IF rest > 0 THEN rest ELSE 0)
            /\ b.pending >= 0
            /\ C_Rows(id) = {} =>
                 /\ b.pending = b.total_sessions
                 /\ b.attendance_rate = 0
                 /\ b.current_streak = 0

\* C3, for the events with end_date > start_date: the same statement
C3_CountsAndPendingOfValidEvents ==
    (C_StatsAnswered /\ events[1].end_date > events[1].start_date)
        => C3_CountsAndPending

\* C3: the records outnumber the days of the event and lie outside its
\* range, and pending is 0
C3_SeenMoreRecordsThanDays ==
    /\ C_StatsAnswered
    /\ response.body.total_sessions = 1
    /\ C_Count("e1", "attended") = 2
    /\ C_Count("e1", "skipped") = 1
    /\ response.body.pending = 0

\* C4: current_streak is the number of the event's records that are
\* attended and have only attended records at later dates: the length of
\* the longest all-attended prefix in session_date-descending order. It is
\* 0 with no records or when the latest record is not attended, and a date
\* without a record does not end or shorten it.
C4_Streak ==
    C_StatsAnswered =>
        LET rows == C_Rows(response.event_id)
            counted == {r \in rows :
                          /\ r.status = "attended"
                          /\ \A q \in rows :
                               C_DayOf(q.session_date) > C_DayOf(r.session_date)
                               => q.status = "attended"}
        IN  response.body.current_streak = Cardinality(counted)

\* C4 witness: attended on 01-04 and 01-02, no record for 01-03, missed on
\* 01-01: the streak is 2
C4_Witness ==
    /\ C_StatsAnswered
    /\ C_Rows("e1") = {NewSession("e1", "2024-01-04", "attended"),
                       NewSession("e1", "2024-01-02", "attended"),
                       NewSession("e1", "2024-01-01", "missed")}
    /\ response.body.current_streak = 2

\* C5: attendance_rate is attended / (attended + missed) * 100 rounded to
\* one decimal (here in tenths of a percent), 0 when attended + missed = 0;
\* it depends on no other record, lies in [0, 100], and 3 attended with 1
\* missed give 75.0.
C5_AttendanceRate ==
    C_StatsAnswered =>
        LET a == C_Count(response.event_id, "attended")
            m == C_Count(response.event_id, "missed")
            rate == response.body.attendance_rate
        IN  /\ a + m = 0 => rate = 0
            /\ a + m > 0 => 2 * Abs(rate * (a + m) - 1000 * a) <= a + m
            /\ rate >= 0 /\ rate <= 1000
            /\ (a = 3 /\ m = 1) => rate = 750

\* C5 witness: 3 attended and 1 missed, and the rate is 75.0
C5_Witness ==
    /\ C_StatsAnswered
    /\ C_Count("e1", "attended") = 3
    /\ C_Count("e1", "missed") = 1
    /\ response.body.attendance_rate = 750

\* ------------------------------------------------- claims: total sessions

\* the calendar day a datetime lies in
C_DateOf(t) ==
    CHOOSE d \in 0..(MaxDay + 1) :
        d * 86400 <= t /\ t < (d + 1) * 86400

\* C6: calculate_total_sessions is 0 when daily_start_time or
\* daily_end_time is absent, and otherwise (end.date - start.date).days + 1,
\* the number of calendar days from start.date to end.date inclusive: 1
\* within one day, 5 for 2024-01-01 to 2024-01-05, whatever the times of
\* day.
C6_TotalSessions ==
    response.op = "calculate_total_sessions" =>
        LET e == events[1]
            first == C_DateOf(e.start_date)
            last == C_DateOf(e.end_date)
        IN  /\ (e.daily_start_time = None \/ e.daily_end_time = None)
                 => response.result = 0
            /\ (e.daily_start_time # None /\ e.daily_end_time # None) =>
                 /\ response.result = last - first + 1
                 /\ e.end_date > e.start_date =>
                      response.result =
                          Cardinality({d \in 0..MaxDay : first <= d /\ d <= last})
                 /\ first = last => response.result = 1
                 /\ (first = 0 /\ last = 4) => response.result = 5

\* C6 witness: from 2024-01-01T23:59 to 2024-01-05T00:00, less than four
\* days apart, with a daily window: 5 sessions
C6_Witness ==
    /\ response.op = "calculate_total_sessions"
    /\ events[1].start_date = At(0, 23, 59)
    /\ events[1].end_date = At(4, 0, 0)
    /\ events[1].daily_start_time # None
    /\ events[1].daily_end_time # None
    /\ response.result = 5

\* ------------------------------------------------ claims: marking sessions

\* the (event_id, session_date) pairs that have a row
C_Keys(table) == {<<r.event_id, r.session_date>> : r \in BagToSet(table)}

\* a successful create_session_attendance or update_session_attendance
C_Marked(resp) ==
    /\ resp.op \in {"create_session_attendance", "update_session_attendance"}
    /\ resp.status_code \in {200, 201}

\* at most one row for each (event_id, session_date)
C7_Unique ==
    \A r \in BagToSet(attendance) :
        /\ CopiesIn(r, attendance) = 1
        /\ \A q \in BagToSet(attendance) :
             (q.event_id = r.event_id /\ q.session_date = r.session_date)
             => q = r

\* marking a date that has a row leaves the number of rows and all other
\* rows as they were and gives that row the new status; marking a date
\* that has none adds exactly one row
C7_MarkStep ==
    C_Marked(response') =>
        LET row == response'.body
            key == <<row.event_id, row.session_date>>
            others(table) ==
                [r \in {x \in BagToSet(table) :
                            <<x.event_id, x.session_date>> # key}
                    |-> table[r]]
        IN  /\ CopiesIn(row, attendance') = 1
            /\ others(attendance') = others(attendance)
            /\ BagCardinality(attendance') =
                 BagCardinality(attendance)
                 + (IF key \in C_Keys(attendance) THEN 0 ELSE 1)

\* C7: after any sequence of create_session_attendance and
\* update_session_attendance calls the table holds at most one row for each
\* (event_id, session_date): marking a date that has a row changes that
\* row's status, marking a date without one adds exactly one row.
C7_OneRecordPerDate == [][C7_MarkStep]_vars /\ []C7_Unique

\* C7 witness: every date of event e1 was marked, the last request was a
\* PATCH that set 2024-01-02 to skipped, and the table holds one row a date
C7_Witness ==
    /\ response.op = "update_session_attendance"
    /\ response.status_code = 200
    /\ response.body = NewSession("e1", "2024-01-02", "skipped")
    /\ C_Keys(attendance) =
         {<<"e1", "2024-01-01">>, <<"e1", "2024-01-02">>,
          <<"e1", "2024-01-03">>, <<"e2", "2024-01-01">>}
    /\ BagCardinality(attendance) = 4

\* ------------------------------------------------ claims: pending sessions

\* the minute of the day that a daily_end_time of the specification names
C_EndMinute(daily_end_time) ==
    CASE daily_end_time = "17:00" -> 17 * 60
      [] daily_end_time = "9:30" -> 9 * 60 + 30

\* the dates that are due and unmarked: from start.date to the earlier of
\* end.date and today, without a record, and before today or, today, at or
\* past daily_end_time
C_DueDays(e, clock) ==
    LET today == C_DateOf(clock)
        minute == (clock - today * 86400) \div 60
    IN  {d \in 0..MaxDay :
            /\ C_DateOf(e.start_date) <= d
            /\ d <= C_DateOf(e.end_date)
            /\ d <= today
            /\ ~\E r \in C_Rows(e.id) : r.session_date = IsoFormat(d)
            /\ (d = today => minute >= C_EndMinute(e.daily_end_time))}

\* C2: for an event with a daily window get_pending_sessions returns, in
\* ascending date order and without duplicates, exactly the ISO dates d with
\* start.date <= d <= min(end.date, today) that have no attendance record
\* and for which d < today, or d = today and the time is at or past
\* daily_end_time; no date after today. For 2024-01-01..2024-01-03 with
\* daily end 17:00 and no records, on 2024-01-03 at 16:00 these are the
\* first two dates and at 17:00 all three.
C2_PendingDates ==
    (/\ response.op = "get_pending_sessions"
     /\ response.status_code = 200
     /\ events[1].daily_start_time # None
     /\ events[1].daily_end_time # None) =>
        LET e == events[1]
            body == response.body
        IN  /\ {body[i] : i \in DOMAIN body}
                 = {IsoFormat(d) : d \in C_DueDays(e, now)}
            /\ \A i, j \in DOMAIN body :
                 i < j => C_DayOf(body[i]) < C_DayOf(body[j])
            /\ \A i \in DOMAIN body : C_DayOf(body[i]) <= C_DateOf(now)
            /\ (/\ e = DailyEvent("e1", 0, 2, "09:00", "17:00")
                /\ C_Rows("e1") = {}
                /\ now = At(2, 16, 0))
               => body = <<"2024-01-01", "2024-01-02">>
            /\ (/\ e = DailyEvent("e1", 0, 2, "09:00", "17:00")
                /\ C_Rows("e1") = {}
                /\ now = At(2, 17, 0))
               => body = <<"2024-01-01", "2024-01-02", "2024-01-03">>

\* C2 witness: the event of 2024-01-01..2024-01-03 with daily end 17:00, a
\* record only for another event, asked on 2024-01-03 at 16:00: the first
\* two dates
C2_Witness ==
    /\ response.op = "get_pending_sessions"
    /\ events[1] = DailyEvent("e1", 0, 2, "09:00", "17:00")
    /\ C_Rows("e1") = {}
    /\ C_Rows("e2") # {}
    /\ now = At(2, 16, 0)
    /\ response.body = <<"2024-01-01", "2024-01-02">>

\* ------------------------------------------------ claims: event operations

\* C8: every stored event has end_date > start_date, in every state that
\* create_event, import_schedule, update_event, toggle_event_completion and
\* the delete operations reach
C8_EndAfterStart ==
    \A i \in DOMAIN events : events[i].end_date > events[i].start_date

\* the request of a create_event has valid fields of its own: end > start,
\* and start not before the first second of today
C_ValidCreate(request, clock) ==
    /\ request.end_date > request.start_date
    /\ request.start_date >= (clock \div 86400) * 86400

\* C9: create_event and update_event never reject a request because of
\* stored events: whatever is stored, a create_event whose own fields are
\* valid answers 201 and appends the event with the fields of the request
\* (also an exact duplicate of a stored event, its copy 30 minutes later and
\* a longer event with the same start), an update_event of a stored event
\* answers 200, and no response is a 409
C9_NoOverlapRejectionStep ==
    /\ (/\ now' = now
        /\ response'.op = "create_event"
        /\ C_ValidCreate(response'.request, now))
       => /\ response'.status_code = 201
          /\ Len(events') = Len(events) + 1
          /\ SubSeq(events', 1, Len(events)) = events
          /\ events'[Len(events')] = response'.body
          /\ \A f \in DOMAIN response'.request :
                response'.body[f] = response'.request[f]
    /\ (/\ now' = now
        /\ response'.op = "update_event"
        /\ \E i \in DOMAIN events : events[i].id = response'.event_id)
       => response'.status_code = 200

C9_NoOverlapRejection ==
    [][C9_NoOverlapRejectionStep]_vars
    /\ [](response.op \in {"create_event", "update_event"}
             => response.status_code # 409)

\* C9 witness: a create_event answered 201 whose event has the start_date
\* and the end_date of an event that was stored before it
C9_Witness ==
    /\ response.op = "create_event"
    /\ response.status_code = 201
    /\ Len(events) = 2
    /\ events[2] = response.body
    /\ events[1].id # events[2].id
    /\ events[1].start_date = events[2].start_date
    /\ events[1].end_date = events[2].end_date
    /\ ~events[1].is_completed

\* ------------------------------------------- claims: conflict candidate pool

\* C11: check_conflicts never returns an event whose timing_mode is
\* 'anytime', whose is_completed is true or whose id is exclude_id, whatever
\* its interval: an event that is edited, with its own id as exclude_id, is
\* never in conflict with itself. Every other event, of timing_mode
\* 'specific' or 'deadline', stays a candidate: when it overlaps the
\* interval asked for with both ends less than an hour away, an event is
\* returned, and it is that event when no event before it is such an event.
C11_CandidatePool ==
    response.op = "check_conflicts" =>
        /\ \A i \in 1..Len(response.result) :
             /\ response.result[i].timing_mode # "anytime"
             /\ response.result[i].is_completed = FALSE
             /\ response.result[i].id # response.exclude_id
             /\ \E k \in DOMAIN events : events[k] = response.result[i]
        /\ \A k \in DOMAIN events :
             LET near(e) ==
                     /\ e.start_date < response.end_date
                     /\ e.end_date > response.start_date
                     /\ e.start_date - response.start_date \in -3599..3599
                     /\ e.end_date - response.end_date \in -3599..3599
                 in_pool(e) ==
                     /\ e.timing_mode \in {"specific", "deadline"}
                     /\ ~e.is_completed
                     /\ e.id # response.exclude_id
             IN  (in_pool(events[k]) /\ near(events[k])) =>
                     /\ response.result # <<>>
                     /\ (\A j \in 1..(k - 1) :
                            ~(in_pool(events[j]) /\ near(events[j])))
                        => response.result = <<events[k]>>

\* C11 witness: three ways out of the pool and one way in. The first stored
\* event has the interval asked for and is the event excluded, the second
\* has it too and is 'anytime' or completed, and the result is None.
C11_Witness ==
    /\ response.op = "check_conflicts"
    /\ Len(events) = 2
    /\ \A k \in 1..2 :
          /\ events[k].start_date = response.start_date
          /\ events[k].end_date = response.end_date
    /\ events[1].timing_mode = "deadline"
    /\ ~events[1].is_completed
    /\ events[1].id = response.exclude_id
    /\ events[2].timing_mode = "anytime" \/ events[2].is_completed
    /\ response.result = <<>>

\* --------------------------------------------- claims: conflict rule variants

\* C12: the conflict rule is a variant that the caller selects. The source
\* has one function, check_conflicts, without a parameter that selects a
\* rule; this states the Strict variant of it: for every interval asked for
\* and every eligible stored event that strictly overlaps it, a conflict is
\* returned, the first such event in iteration order, whatever the
\* differences of the starts and of the ends.
C12_StrictVariant ==
    response.op = "check_conflicts" =>
        LET overlapping ==
                {i \in DOMAIN events :
                    /\ events[i].timing_mode # "anytime"
                    /\ ~events[i].is_completed
                    /\ events[i].id # response.exclude_id
                    /\ events[i].start_date < response.end_date
                    /\ events[i].end_date > response.start_date}
        IN  overlapping # {} =>
                response.result =
                    <<events[CHOOSE i \in overlapping :
                                \A j \in overlapping : i <= j]>>

\* -------------------------------------------- claims: marking a date skipped

\* the statistics that get_session_stats answers for event e1, the first
\* stored event, when the table is table
C_StatsOf(table) ==
    SessionStats(events[1],
                 CHOOSE l \in Listings(SessionsOf(table, "e1")) : TRUE)

\* a step that adds a skipped record for a date of event e1, within
\* [start.date, end.date], that had no record
C_SkipsPendingDate ==
    /\ C_Marked(response')
    /\ response'.body.event_id = "e1"
    /\ response'.body.status = "skipped"
    /\ <<"e1", response'.body.session_date>> \notin C_Keys(attendance)
    /\ \E d \in 0..MaxDay :
          /\ response'.body.session_date = IsoFormat(d)
          /\ events[1].start_date \div 86400 <= d
          /\ d <= events[1].end_date \div 86400
    /\ events[1].daily_start_time # None
    /\ events[1].daily_end_time # None

\* C13, as stated: adding a skipped record for a date of the event that had
\* no record decreases pending by exactly 1 and leaves attendance_rate,
\* attended, missed and total_sessions as they were
C13_SkipDecreasesPending ==
    [][C_SkipsPendingDate =>
          LET before == C_StatsOf(attendance)
              after == C_StatsOf(attendance')
          IN  /\ after.pending = before.pending - 1
              /\ after.attendance_rate = before.attendance_rate
              /\ after.attended = before.attended
              /\ after.missed = before.missed
              /\ after.total_sessions = before.total_sessions]_vars

\* C13, amended: it decreases pending by exactly 1 when pending was not 0,
\* which it is when the records with a status other than pending already
\* number total_sessions or more (records for dates outside the event's
\* range); then pending stays 0. It leaves attendance_rate, attended, missed
\* and total_sessions as they were, and skipped grows by 1.
C13_SkipDecreasesPositivePending ==
    [][C_SkipsPendingDate =>
          LET before == C_StatsOf(attendance)
              after == C_StatsOf(attendance')
          IN  /\ before.pending > 0 => after.pending = before.pending - 1
              /\ before.pending = 0 => after.pending = 0
              /\ before.pending = 0 =>
                   before.attended + before.missed + before.skipped
                       >= before.total_sessions
              /\ after.skipped = before.skipped + 1
              /\ after.attendance_rate = before.attendance_rate
              /\ after.attended = before.attended
              /\ after.missed = before.missed
              /\ after.total_sessions = before.total_sessions]_vars

\* C13 witness: event e1 of three days has an attended and a missed record,
\* 2024-01-03 had none and is now skipped: pending is 0 and the rate 50.0
C13_Witness ==
    /\ response.op = "create_session_attendance"
    /\ response.status_code = 201
    /\ response.body = NewSession("e1", "2024-01-03", "skipped")
    /\ events[1] = DailyEvent("e1", 0, 2, "09:00", "17:00")
    /\ C_Rows("e1") =
         {NewSession("e1", "2024-01-01", "attended"),
          NewSession("e1", "2024-01-02", "missed"),
          NewSession("e1", "2024-01-03", "skipped")}
    /\ C_StatsOf(attendance).pending = 0
    /\ C_StatsOf(attendance).attendance_rate = 500

\* ------------------------------------------- claims: events without a window

\* C14: for an event without daily_start_time or without daily_end_time
\* every output of get_session_stats is 0, whatever records the event has:
\* total_sessions, attended, missed, skipped, pending, attendance_rate and
\* current_streak
C14_NoWindowAllZero ==
    (/\ response.op = "get_session_stats"
     /\ response.status_code = 200
     /\ \E i \in DOMAIN events :
           /\ events[i].id = response.event_id
           /\ (events[i].daily_start_time = None
               \/ events[i].daily_end_time = None))
    => /\ response.body.total_sessions = 0
       /\ response.body.attended = 0
       /\ response.body.missed = 0
       /\ response.body.skipped = 0
       /\ response.body.pending = 0
       /\ response.body.attendance_rate = 0
       /\ response.body.current_streak = 0

\* C14, the part on get_pending_sessions: for such an event the list is
\* empty, whatever records and whatever time
C14_NoWindowNothingPending ==
    (/\ response.op = "get_pending_sessions"
     /\ response.status_code = 200
     /\ \E i \in DOMAIN events :
           /\ events[i].id = response.event_id
           /\ (events[i].daily_start_time = None
               \/ events[i].daily_end_time = None))
    => response.body = <<>>

\* ------------------------------------------------- claims: days of the streak

\* the records that current_streak counts: the current_streak records of
\* the event with the latest session_date
C_Counted ==
    LET rows == C_Rows(response.event_id)
    IN  {r \in rows :
            Cardinality({q \in rows :
                C_DayOf(q.session_date) > C_DayOf(r.session_date)})
                < response.body.current_streak}

C16_WindowBothOrNeither ==
    \A i \in DOMAIN events :
        (events[i].daily_start_time = None)
            <=> (events[i].daily_end_time = None)

\* ------------------------------------------------- claims: reads only read

\* the requests that only evaluate
C_ReadOps == {"check_conflicts", "get_session_stats", "get_pending_sessions"}

\* the fields of a response that repeat the request
C_RequestOf(resp) ==
    IF resp.op = "check_conflicts"
    THEN <<resp.op, resp.start_date, resp.end_date, resp.exclude_id>>
    ELSE IF resp.op \in C_ReadOps THEN <<resp.op, resp.event_id>>
    ELSE <<resp.op>>

\* C17: check_conflicts, get_session_stats and get_pending_sessions leave
\* the stored events and the stored attendance records exactly as they
\* were; no date that get_pending_sessions reports has a record afterwards;
\* and a request that repeats the request before it, on the same stored
\* data at the same time, is answered as that was.
C17_ReadOnlyStep ==
    response'.op \in C_ReadOps =>
        /\ events' = events
        /\ attendance' = attendance
        /\ (response'.op = "get_pending_sessions"
            /\ response'.status_code = 200) =>
              \A i \in DOMAIN response'.body :
                 ~\E r \in BagToSet(attendance') :
                     /\ r.event_id = response'.event_id
                     /\ r.session_date = response'.body[i]
        /\ (C_RequestOf(response') = C_RequestOf(response) /\ now' = now)
              => response' = response

C17_ReadOnly == [][C17_ReadOnlyStep]_vars

\* C17 witness: get_pending_sessions has reported two dates of event e1,
\* after another request, and the table holds what it held: one record, of
\* another date of the event
C17_Witness ==
    /\ response.op = "get_pending_sessions"
    /\ response.status_code = 200
    /\ response.body = <<"2024-01-01", "2024-01-03">>
    /\ attendance = SetToBag({NewSession("e1", "2024-01-02", "missed")})
    /\ Len(events) = 2

\* ------------------------------------------- claims: rejections of create_event

\* a step of create_event
C_Creates == now' = now /\ response'.op = "create_event"

\* C18: create_event answers 400 and stores nothing when end_date <=
\* start_date, an event of no duration included, and when start_date is
\* before 00:00 of the current day; a start_date before the current time on
\* the current day is accepted; every rejection leaves the events as they
\* were, and an event that is stored has the dates of the request.
C18_CreateRejectsStep ==
    C_Creates =>
        LET request == response'.request
            midnight == now - (now % 86400)
            rejected == /\ response'.status_code = 400
                        /\ events' = events
        IN  /\ request.end_date <= request.start_date => rejected
            /\ request.start_date < midnight => rejected
            /\ response'.status_code # 201 => events' = events
            /\ (/\ request.end_date > request.start_date
                /\ request.start_date >= midnight
                /\ request.start_date < now)
               => response'.status_code = 201
            /\ response'.status_code = 201 =>
                 /\ request.end_date > request.start_date
                 /\ request.start_date >= midnight
                 /\ Len(events') = Len(events) + 1
                 /\ events'[Len(events')].start_date = request.start_date
                 /\ events'[Len(events')].end_date = request.end_date
                 /\ \A i \in DOMAIN events : events'[i] = events[i]

C18_CreateRejects == [][C18_CreateRejectsStep]_vars

\* C18 witness: a request for an event of no duration is answered 400 while
\* one event is stored, which started earlier on the current day
C18_Witness ==
    /\ response.op = "create_event"
    /\ response.status_code = 400
    /\ response.request.end_date = response.request.start_date
    /\ Len(events) = 1
    /\ events[1].start_date < now
    /\ events[1].start_date \div 86400 = now \div 86400
    /\ next_id = 2

\* ------------------------------------------------ claims: import_schedule

\* C19: import_schedule treats the items of a payload one by one: every
\* item is in exactly one of imported and errors, so that total_received =
\* total_imported + total_errors; an item with end_date <= start_date is
\* reported with its index in the payload, its title and 'End time must be
\* after start time' and is not stored; the other items are stored and
\* returned in the order of the payload; and the answer is 201 also when
\* every item is reported.
C19_ImportStep ==
    (now' = now /\ response'.op = "import_schedule") =>
        LET schedule == response'.request
            valid == {i \in DOMAIN schedule :
                         schedule[i].end_date > schedule[i].start_date}
            place(i) == Cardinality({j \in valid : j <= i})
            body == response'.body
        IN  /\ valid = {} => response'.status_code = 201
            /\ response'.status_code # 201 => events' = events
            /\ response'.status_code = 201 =>
                 /\ body.total_received = Len(schedule)
                 /\ body.total_imported = Len(body.imported)
                 /\ body.total_errors = Len(body.errors)
                 /\ body.total_received
                      = body.total_imported + body.total_errors
                 /\ Len(body.imported) = Cardinality(valid)
                 /\ \A i \in valid :
                       \A f \in DOMAIN schedule[i] :
                           body.imported[place(i)][f] = schedule[i][f]
                 /\ \A i \in DOMAIN schedule \ valid :
                       /\ Cardinality({k \in DOMAIN body.errors :
                              body.errors[k].index = i - 1}) = 1
                       /\ \E k \in DOMAIN body.errors :
                              body.errors[k] =
                                [index |-> i - 1,
                                 title |-> schedule[i].title,
                                 error |-> "End time must be after start time"]
                 /\ \A k \in DOMAIN body.errors :
                       body.errors[k].index + 1 \in DOMAIN schedule \ valid
                 /\ Len(events') = Len(events) + Len(body.imported)
                 /\ \A k \in DOMAIN events : events'[k] = events[k]
                 /\ \A k \in DOMAIN body.imported :
                       events'[Len(events) + k] = body.imported[k]

C19_ImportItemsIndependently == [][C19_ImportStep]_vars

\* C19 witness: a payload of an item that ends before it starts and an item
\* that is valid: the first is reported with index 0 and its title, the
\* second is stored, and the answer is 201
C19_Witness ==
    /\ response.op = "import_schedule"
    /\ response.status_code = 201
    /\ Len(response.request) = 2
    /\ response.request[1].end_date <= response.request[1].start_date
    /\ response.request[2].end_date > response.request[2].start_date
    /\ response.body.errors =
         <<[index |-> 0, title |-> "b",
            error |-> "End time must be after start time"]>>
    /\ Len(response.body.imported) = 1
    /\ events # <<>>
    /\ events[Len(events)] = response.body.imported[1]
    /\ response.body.total_received = 2

\* ----------------------------------------- claims: toggle_event_completion

\* a step of toggle_event_completion
C_Toggles == now' = now /\ response'.op = "toggle_event_completion"

\* C20: toggle_event_completion negates is_completed of the event with the
\* id of the request and changes nothing else, of that event or of any
\* other; it answers 400 and changes nothing when the event is not
\* completed and its start_date is later than now; a completed event is
\* always set back; and a second toggle of an event that has started, after
\* a first one, gives is_completed the value it had before the first.
C20_ToggleStep ==
    C_Toggles =>
        LET id == response'.event_id
            at == {k \in DOMAIN events : events[k].id = id}
        IN  /\ at = {} => (response'.status_code = 404 /\ events' = events)
            /\ \A k \in at :
                  /\ (~events[k].is_completed /\ events[k].start_date > now)
                       => (response'.status_code = 400 /\ events' = events)
                  /\ events[k].is_completed => response'.status_code = 200
                  /\ events[k].start_date <= now
                       => response'.status_code = 200
            /\ response'.status_code = 200 =>
                 /\ at # {}
                 /\ DOMAIN events' = DOMAIN events
                 /\ \A k \in DOMAIN events :
                       /\ k \notin at => events'[k] = events[k]
                       /\ k \in at =>
                            /\ events'[k].is_completed
                                 = ~events[k].is_completed
                            /\ \A f \in DOMAIN events[k] \ {"is_completed"} :
                                  events'[k][f] = events[k][f]
                            /\ response'.body = events'[k]
            /\ (/\ response.op = "toggle_event_completion"
                /\ response.status_code = 200
                /\ response.event_id = id
                /\ response.body.start_date <= now)
               => /\ response'.status_code = 200
                  /\ response'.body.is_completed
                       = ~response.body.is_completed
                  /\ \A k \in at :
                        events'[k].is_completed
                            = ~response.body.is_completed

C_Updates == now' = now /\ response'.op = "update_event"

\* C21: update_event gives the fields of the request body their values in
\* the event with the id of the request, and leaves every other field of
\* that event, every other event and every attendance record as they were;
\* for an id that no event has it answers 404 and changes nothing.
C21_UpdateStep ==
    C_Updates =>
        LET id == response'.event_id
            given == response'.request
            at == {k \in DOMAIN events : events[k].id = id}
        IN  /\ attendance' = attendance
            /\ at = {} => (response'.status_code = 404 /\ events' = events)
            /\ at # {} =>
                 /\ response'.status_code = 200
                 /\ DOMAIN events' = DOMAIN events
                 /\ \A k \in DOMAIN events :
                       /\ k \notin at => events'[k] = events[k]
                       /\ k \in at =>
                            /\ DOMAIN events'[k] = DOMAIN events[k]
                            /\ \A f \in DOMAIN events[k] \cap DOMAIN given :
                                  events'[k][f] = given[f]
                            /\ \A f \in DOMAIN events[k] \ DOMAIN given :
                                  events'[k][f] = events[k][f]
                            /\ response'.body = events'[k]

C_Deletes == now' = now /\ response'.op = "delete_event"

C_Gets == now' = now /\ response'.op = "get_event"

\* C22: delete_event removes the event with the id of the request and
\* nothing else: every other event and every attendance record, also those
\* of the deleted event, stay as they were; for an id that no event has it
\* answers 404 and changes nothing; and get_event answers 404 for an id
\* exactly when no event has it, so also right after its delete.
C22_DeleteStep ==
    /\ C_Deletes =>
          LET id == response'.event_id
              at == {k \in DOMAIN events : events[k].id = id}
          IN  /\ attendance' = attendance
              /\ at = {} => (response'.status_code = 404 /\ events' = events)
              /\ at # {} =>
                   /\ response'.status_code = 204
                   /\ Len(events') = Len(events) - Cardinality(at)
                   /\ {events'[k] : k \in DOMAIN events'}
                        = {events[k] : k \in DOMAIN events \ at}
    /\ C_Gets =>
          LET id == response'.event_id
          IN  /\ events' = events
              /\ attendance' = attendance
              /\ response'.status_code = 404
                   <=> \A k \in DOMAIN events : events[k].id # id
              /\ (/\ response.op = "delete_event"
                  /\ response.status_code = 204
                  /\ response.event_id = id)
                 => response'.status_code = 404

C22_DeleteRemovesOneEvent == [][C22_DeleteStep]_vars

\* C22 witness: get_event answers 404 for e1, which was deleted, while e2
\* is stored as it was and the two attendance records of e1 are kept
C22_Witness ==
    /\ response.op = "get_event"
    /\ response.status_code = 404
    /\ response.event_id = "e1"
    /\ events = <<DailyEvent("e2", 0, 1, "09:00", "17:00")>>
    /\ BagCardinality(attendance) = 3
    /\ BagIn([event_id |-> "e1", session_date |-> "2024-01-01",
              status |-> "attended"], attendance)
    /\ BagIn([event_id |-> "e1", session_date |-> "2024-01-02",
              status |-> "missed"], attendance)

\* ------------------------------------------------- claims: pomodoro get_stats

\* the seconds of a stored duration
C_Seconds(duration) ==
    CASE duration = "15" -> 15 [] duration = "300" -> 300
      [] duration = "1500" -> 1500

\* the rows at the places ks of the table, and the sum of their seconds
C_CompletedWork(rows) ==
    {k \in DOMAIN rows : rows[k].mode = "work" /\ rows[k].completed}

RECURSIVE C_SecondsAt(_, _)
C_SecondsAt(rows, ks) ==
    IF ks = {} THEN 0
    ELSE LET k == CHOOSE x \in ks : TRUE
         IN  C_Seconds(rows[k].duration) + C_SecondsAt(rows, ks \ {k})

\* what C23 says of the answer body for the table rows
C_StatsAsClaimed(body, rows) ==
    LET done == C_CompletedWork(rows)
        minutes == C_SecondsAt(rows, done) \div 60
    IN  /\ body.total_sessions
             = Cardinality({k \in DOMAIN rows : rows[k].mode = "work"})
        /\ body.completed_sessions = Cardinality(done)
        /\ body.total_work_time = minutes
        /\ done = {} => body.average_session_length = 0
        /\ done # {} =>
              LET tenths == body.average_session_length
                  off == tenths * Cardinality(done) - 10 * minutes
              IN  2 * off <= Cardinality(done) /\ -2 * off <= Cardinality(done)

\* C23: get_stats counts the sessions of mode work: total_sessions is their
\* number, completed_sessions that of the completed ones, total_work_time
\* the whole minutes in the seconds of the completed ones, and
\* average_session_length total_work_time / completed_sessions to the
\* nearest tenth, or 0 without a completed one; and a break session that is
\* recorded changes none of the four.
C23_StatsStep ==
    /\ response'.op = "get_stats" =>
          C_StatsAsClaimed(response'.body, pomodoro_sessions')
    /\ (response'.op = "create_session" /\ response'.body.mode # "work") =>
          \A body \in {PomodoroStats(pomodoro_sessions)} :
              /\ C_StatsAsClaimed(body, pomodoro_sessions)
              /\ C_StatsAsClaimed(body, pomodoro_sessions')
              /\ PomodoroStats(pomodoro_sessions') = body

C23_WorkSessionStats == [][C23_StatsStep]_vars

\* C23 witness: three completed work sessions of 1500 seconds and one
\* break give 3, 3, 75 and an average of 25.0
C23_Witness ==
    /\ response.op = "get_stats"
    /\ Len(pomodoro_sessions) = 4
    /\ \E b \in 1..4 :
          /\ pomodoro_sessions[b].mode = "shortBreak"
          /\ \A k \in (1..4) \ {b} :
                pomodoro_sessions[k]
                    = [mode |-> "work", duration |-> "1500",
                       completed |-> TRUE]
    /\ response.body = [total_sessions |-> 3, total_work_time |-> 75,
                        completed_sessions |-> 3,
                        average_session_length |-> 250]

\* ------------------------------------------- claims: marking at the same time

\* C24: when every marking request has been answered, also after two of
\* them for the same session were handled at the same time, the table
\* holds at most one record for each event_id and session_date.
C24_OneRecordAfterRace ==
    in_flight = <<>> =>
        \A r \in BagToSet(attendance) :
            BagCardinality(
                [x \in {y \in BagToSet(attendance) :
                            /\ y.event_id = r.event_id
                            /\ y.session_date = r.session_date}
                    |-> attendance[x]]) <= 1

\* ---------------------------------------- claims: the commit of import_schedule

\* the stored events that have the values of the item
C_StoredAs(db, item) ==
    {k \in DOMAIN db : \A f \in DOMAIN item : db[k][f] = item[f]}

\* C25: the valid items of one import_schedule call are stored together
\* or not at all: the call answers 201 and the table has one new row for
\* each valid item, or it answers 500 and the table is as it was; and
\* get_events lists exactly the stored rows, so after a 201 all the rows
\* of that call.
C25_ImportStep ==
    /\ (now' = now /\ response'.op = "import_schedule") =>
          LET schedule == response'.request
              valid == {i \in DOMAIN schedule :
                           schedule[i].end_date > schedule[i].start_date}
              added == {k \in DOMAIN events' : k > Len(events)}
          IN  /\ response'.status_code \in {201, 500}
              /\ SubSeq(events', 1, Len(events)) = events
              /\ response'.status_code = 500 =>
                    (valid # {} /\ events' = events /\ next_id' = next_id)
              /\ response'.status_code = 201 =>
                    /\ Cardinality(added) = Cardinality(valid)
                    /\ \A i \in valid :
                          C_StoredAs(events', schedule[i]) \cap added # {}
                    /\ \A k \in added :
                          \E i \in valid :
                              k \in C_StoredAs(events', schedule[i])
    /\ (now' = now /\ response'.op = "get_events") =>
          /\ events' = events
          /\ Len(response'.body) = Len(events)
          /\ \A k \in DOMAIN events :
                \E j \in DOMAIN response'.body :
                    response'.body[j] = events[k]
          /\ (response.op = "import_schedule" /\ response.status_code = 201)
               => \A k \in DOMAIN response.body.imported :
                     \E j \in DOMAIN response'.body :
                         response'.body[j] = response.body.imported[k]

C_PendingAnswer(resp) ==
    /\ resp.op = "get_pending_sessions"
    /\ resp.status_code = 200
    /\ resp.event_id = "e1"

\* C26: no step takes away the record of a session, whatever status it is
\* given, and get_pending_sessions returns no date that has a record: so
\* a date that has a record is not returned again.
C26_MarkedStep ==
    /\ \A r \in BagToSet(attendance) :
          \E q \in BagToSet(attendance') :
              /\ q.event_id = r.event_id
              /\ q.session_date = r.session_date
    /\ C_PendingAnswer(response') =>
          \A r \in BagToSet(attendance') :
              r.event_id = "e1" =>
                  \A k \in DOMAIN response'.body :
                      response'.body[k] # r.session_date

C26_MarkedNeverPendingAgain == [][C26_MarkedStep]_vars

\* C26 witness: on the third day the first day has a record of status
\* pending and is not returned, while the second day, without one, is
C26_Witness ==
    /\ C_PendingAnswer(response)
    /\ response.body = <<"2024-01-02">>
    /\ now >= 2 * 86400
    /\ attendance = SetToBag({[event_id |-> "e1",
                               session_date |-> "2024-01-01",
                               status |-> "pending"],
                              [event_id |-> "e1",
                               session_date |-> "2024-01-03",
                               status |-> "attended"]})

\* ------------------------------------------- claims: statistics and pending

\* an answer of get_session_stats for event e1
C_StatsAnswer(resp) ==
    /\ resp.op = "get_session_stats"
    /\ resp.status_code = 200
    /\ resp.event_id = "e1"

\* the records of e1 are for different dates from its first to its last
C_RecordsInRange(table) ==
    \A r \in BagToSet(table) :
        r.event_id = "e1" =>
            /\ table[r] = 1
            /\ r.session_date
                 \in {"2024-01-01", "2024-01-02", "2024-01-03"}
            /\ \A q \in BagToSet(table) :
                  (q.event_id = "e1" /\ q.session_date = r.session_date)
                      => q = r

\* C27: for the event e1 of three days with a daily window, whose records
\* are for different dates of these days, attended + missed + skipped +
\* pending of get_session_stats is total_sessions, and get_pending_sessions
\* returns, at any time, at most pending dates.
C27_StatsStep ==
    C_RecordsInRange(attendance') =>
        /\ C_StatsAnswer(response') =>
              /\ response'.body.total_sessions = 3
              /\ response'.body.attended + response'.body.missed
                   + response'.body.skipped + response'.body.pending
                     = response'.body.total_sessions
        /\ (C_StatsAnswer(response) /\ C_PendingAnswer(response')) =>
              Len(response'.body) <= response.body.pending
        /\ (C_PendingAnswer(response) /\ C_StatsAnswer(response')) =>
              Len(response.body) <= response'.body.pending

C27_StatusesSumToTotal == [][C27_StatsStep]_vars

\* C27 witness: with the first day attended and the third marked pending,
\* the statistics read after the end of the third session count 1 attended
\* and 2 pending of 3
C27_Witness ==
    /\ C_StatsAnswer(response)
    /\ response.body.total_sessions = 3
    /\ response.body.attended = 1
    /\ response.body.pending = 2
    /\ now >= 2 * 86400 + 17 * 3600
    /\ attendance = SetToBag({[event_id |-> "e1",
                               session_date |-> "2024-01-01",
                               status |-> "attended"],
                              [event_id |-> "e1",
                               session_date |-> "2024-01-03",
                               status |-> "pending"]})

\* ------------------------------------------- claims: pending as time advances

\* C29: the list of get_pending_sessions only grows with time: an answer
\* for the same event and the same records at the same or a later time
\* holds every date of the earlier answer, in the same order.
C29_LaterStep ==
    (C_PendingAnswer(response) /\ C_PendingAnswer(response')) =>
        /\ attendance' = attendance
        /\ events' = events
        /\ \A k \in DOMAIN response.body :
              \E j \in DOMAIN response'.body :
                  response'.body[j] = response.body[k]
        /\ \A k1, k2 \in DOMAIN response.body :
              k1 < k2 =>
                  \E j1, j2 \in DOMAIN response'.body :
                      /\ j1 < j2
                      /\ response'.body[j1] = response.body[k1]
                      /\ response'.body[j2] = response.body[k2]

C28_CompletedHasStarted ==
    \A k \in DOMAIN events :
        events[k].is_completed => events[k].start_date <= now

====









